---- MODULE Spec2Model ----
(***************************************************************************)
(* A model of the voiceshare media and session pipeline:                   *)
(*   - the per-source jitter core (src/src/jitter_buffer.c), and           *)
(*   - the server's session table, TCP reader and UDP relay                *)
(*     (src/src/server.c).                                                 *)
(* Each part has its own specification; the variables of the other part    *)
(* stay in their initial state.                                            *)
(***************************************************************************)
EXTENDS Integers, Sequences, FiniteSets, TLC

VARIABLES
    \* ---- JitterBuffer (struct JitterBuffer, jitter_buffer.c:18-52) ----
    slots,            \* slots[0..15]: [state, sequence]; the payload is identified by its sequence
    head,             \* read position
    tail,             \* write position (only ever 0)
    count,            \* packets counted as buffered
    next_seq,         \* next expected sequence number (uint16)
    seq_initialized,
    stats,            \* JitterStats; loss_rate is kept as the fraction <<num, den>>
    \* ---- observation of the jitter core's calls ----
    out,              \* frames returned by Get since creation or the last Reset, oldest first
    jb_ret,           \* return value of the last Put/Get
    jb_op,            \* the last call: [op, seq]
    nops,             \* calls made so far
    \* ---- the in-order sender of the loss scenario ----
    snd_first,        \* first sequence number N of the stream
    snd_drop,         \* index (offset from N) of the one packet that is never delivered
    snd_i,            \* packets the sender has produced so far
    \* ---- the two packets of the pair scenario ----
    pair_seq,         \* pair_seq["a"], pair_seq["b"]: their sequence numbers
    pair_ret,         \* <<r>> with r what Put returned for each, <<>> before it is offered
    \* ---- ServerState (server.c:41-77) ----
    clients,          \* clients[0..MaxClients-1]: ClientSession; hello_done is a history flag
    client_count,
    now,              \* GetTickCount64Ms()
    \* ---- position of the TCP reader thread (TcpRecvThreadProc) ----
    rd_pc,            \* "select", "recv" (receive loop), "notify" (unlocked), "hb" (heartbeat loop)
    read_fds,         \* slots whose socket select() reported readable, not yet served
    leaving,          \* the removed session whose PEER_LEAVE is still to be sent
    \* ---- the UDP audio thread (UdpAudioThreadProc) ----
    udp_rtp,          \* <<ssrc>> of the datagram received and not yet relayed, or NoRtp
    \* ---- observation of the server's last step ----
    sent,             \* TCP messages sent by the last step, in order
    udp_sent,         \* RTP datagrams sent by the last step, in order
    cb,               \* callbacks invoked by the last step, in order
    srv_op,           \* the last step: [op, slot, sock, id]
    srv_steps,        \* connections, readable selects and datagrams so far: [accept, select, udp]
    \* ---- the peer table of one connected client (ClientState, client.c:60-63) ----
    peers,            \* g_client.peers[0..peer_count-1]: the client_id of each entry
    cli_msg,          \* the last peer message that client handled: <<[type, id]>>, or <<>>
    \* ---- the client's connection state (ClientState, client.c:21-78) ----
    g_client,         \* [connected, discovering, in_session, tcp_recv_thread, audio_threads]
    cli_op,           \* the last call or thread step of the client: [op, ret]
    cli_calls,        \* calls and thread steps so far
    \* ---- MultiStreamJitterBuffer (jitter_buffer.c:409-424) ----
    streams,          \* streams[0..MaxStreams-1]: StreamInfo; jitter_buffer is [id, puts]
    ms_now,           \* GetTickCount64Ms() as the mixer's threads see it
    ms_prev,          \* the stream table before the last call
    ms_op,            \* the last call: [op, ssrc, time, ret, slot, destroyed]
    ms_calls,         \* calls made so far
    \* ---- one call of MultiStreamJB_GetMixed ----
    mix_in,           \* the frame JitterBuffer_Get returned for each active stream, in slot order
    mix_out,          \* samples[0..ret-1] after the call
    mix_op,           \* "none" before the call, "GetMixed" after it
    \* ---- the discovery thread and the server directory (client.c:488-570) ----
    servers,          \* g_client.servers[0..server_count-1]: [server_id, peer_count, last_seen]
    last_broadcast,   \* local of DiscoveryThreadProc
    disc_now,         \* GetTickCountMs()
    disc_local,       \* the thread's local now, read at the top of its loop
    disc_pc,          \* "top" (start of an iteration) or "recv" (waiting in recvfrom)
    sweep_ids,        \* history: server_ids whose response arrived since the last clear
    prev_ids,         \* history: server_ids listed when the sweep before this one ended
    found_calls,      \* history: server_ids passed to onServerFound since the last clear
    disc_op,          \* the thread's last step: [op, id, found, cb, count_before]
    disc_recvs,       \* datagrams received so far
    \* ---- one TCP control connection and its reader (server.c:451-487,
    \*      client.c:582-613, network.c:212-244) ----
    rx_side,          \* which reader it is: "server", "client" or "packet" (Network_TcpRecvPacket)
    rx_wire,          \* units the peer has written and the reader has not received yet
    rx_closed,        \* the peer has closed the connection
    recv_buf,         \* recv_buf[0..recv_len-1], in units
    rx_pc,            \* "recv", "loop" (reassembly loop), "lost" (connection given up), "crashed"
    rx_handed,        \* <<[magic, len]>>: the message the last step handed on, else <<>>
    rx_sent,          \* units the peer has written so far
    \* ---- the orchestrator (main.c) ----
    running,          \* g_server.running
    g_isServerMode,
    g_opusEncoder,    \* TRUE iff the encoder exists
    app_op,           \* last entry point run and what held when it was entered
    app_calls,        \* entry points and thread steps so far
    \* ---- observation of one start or stop call (server.c, client.c) ----
    stop_prev,        \* what held when the last call was entered, and the call before it
    stop_op,          \* the last call: [op, fired], fired the callbacks it invoked
    stop_calls,       \* calls so far
    \* ---- the packets of one source on their way to a jitter core ----
    arrival,          \* sequence numbers still to arrive, in arrival order
    arrived,          \* sequence numbers that were Put, in arrival order
    \* ---- the control connections of the server, unit by unit (server.c:445-490) ----
    cx_msgs,          \* history: the messages each peer has written, in order
    cx_wire,          \* per connection: units written and not yet received
    cx_buf,           \* per connection: recv_buf[0..recv_len-1]
    cx_open,          \* per connection: "open", "closed" (by the peer) or "removed" (RemoveClient)
    cx_log,           \* history: <<connection, message>> for each call of HandleTcpPacket
    \* ---- Server_Stop and the server's four threads (server.c:189-239) ----
    stop_pc,          \* Server_Stop: "none" (not called), "lock", "join", "done"
    thr,              \* position of the accept, discovery and UDP audio thread
    tcp_room,         \* messages that still fit into the socket buffers towards the peer
    peer_reads,       \* the peer still reads its TCP connection
    \* ---- the client's ingest thread and playback pump on the stream table
    \*      (client.c:640-702, jitter_buffer.c:560-721) ----
    ms_mutex,         \* owner of msjb->mutex: "none", "ingest" or "play"
    ms_thr            \* per thread: [pc, core, arg]; core is the core a Put or Get is running on

jbVars  == <<slots, head, tail, count, next_seq, seq_initialized, stats>>
obsVars == <<out, jb_ret, jb_op, nops>>
sndVars == <<snd_first, snd_drop, snd_i>>
pairVars == <<pair_seq, pair_ret>>
srvVars == <<clients, client_count, now, rd_pc, read_fds, leaving, udp_rtp>>
srvObs  == <<sent, udp_sent, cb, srv_op, srv_steps>>
peerVars == <<peers, cli_msg>>
cliVars == <<g_client, cli_op, cli_calls>>
msVars  == <<streams, ms_now, ms_prev, ms_op, ms_calls>>
mixVars == <<mix_in, mix_out, mix_op>>
discVars == <<servers, last_broadcast, disc_now, disc_local, disc_pc, sweep_ids, prev_ids,
              found_calls, disc_op, disc_recvs>>
rxVars  == <<rx_side, rx_wire, rx_closed, recv_buf, rx_pc, rx_handed, rx_sent>>
appVars == <<running, g_isServerMode, g_opusEncoder, app_op, app_calls>>
stopVars == <<stop_prev, stop_op, stop_calls>>
arrVars == <<arrival, arrived>>
cxVars  == <<cx_msgs, cx_wire, cx_buf, cx_open, cx_log>>
haltVars == <<stop_pc, thr, tcp_room, peer_reads>>
gcVars  == <<ms_mutex, ms_thr>>
thrVars == <<haltVars, gcVars>>
restVars == <<cliVars, msVars, mixVars, discVars, rxVars, appVars, stopVars, arrVars, cxVars, thrVars>>
arrFrame == <<sndVars, pairVars, srvVars, srvObs, peerVars, cliVars, msVars, mixVars,
              discVars, rxVars, appVars, stopVars, cxVars, thrVars>>
baseVars == <<jbVars, obsVars, sndVars, pairVars, srvVars, srvObs, peerVars>>
notApp  == <<baseVars, msVars, mixVars, discVars, rxVars, stopVars, arrVars, cxVars, thrVars>>
notCli  == <<baseVars, msVars, mixVars, discVars, rxVars, appVars, stopVars, arrVars, cxVars, thrVars>>
notMs   == <<baseVars, cliVars, mixVars, discVars, rxVars, appVars, stopVars, arrVars, cxVars, thrVars>>
notMix  == <<baseVars, cliVars, msVars, discVars, rxVars, appVars, stopVars, arrVars, cxVars, thrVars>>
notDisc == <<baseVars, cliVars, msVars, mixVars, rxVars, appVars, stopVars, arrVars, cxVars, thrVars>>
notRx   == <<baseVars, cliVars, msVars, mixVars, discVars, appVars, stopVars, arrVars, cxVars, thrVars>>
extVars == <<peerVars, restVars>>
coreVars == <<jbVars, obsVars, sndVars, pairVars>>
vars    == <<jbVars, obsVars, sndVars, pairVars, srvVars, srvObs, extVars>>

-----------------------------------------------------------------------------
(* Program constants *)
JITTER_BUFFER_SLOTS == 16
JB_SLOT_EMPTY   == 0
JB_SLOT_FILLED  == 1
JB_SLOT_DECODED == 2
AUDIO_FRAME_SAMPLES == 960
SeqModulus == 65536          \* uint16_t sequence numbers

(* Bounds of the model *)
MaxOps    == 7               \* Put/Get/Reset calls explored on one core
MaxStream == 18              \* packets of the in-order stream of the loss scenario

\* First sequence numbers tried, and offsets from next_seq tried afterwards:
\* far too old, oldest accepted, just late, expected, ahead, newest accepted, overrun.
FirstSeqs == {0, 65535}
Offsets   == {-9, -8, -1, 0, 1, 15, 16}

-----------------------------------------------------------------------------
(* Sequence arithmetic *)

\* (int16_t)x for an int x
Int16(x) == LET m == x % SeqModulus IN IF m >= 32768 THEN m - SeqModulus ELSE m

seq_compare(a, b) == Int16(a - b)

\* The distance without the cast to int16_t
seq_distance_NoCast(from, to) == to - from

seq_distance(from, to) == Int16(to - from)

\* uint16_t increment
SeqInc(s) == (s + 1) % SeqModulus

\* The slot a packet goes to, -1 (too old) or -2 (too new). inited and nseq are
\* seq_initialized and next_seq as Put has just set them.
find_slot_for_seq(inited, nseq, seq) ==
    IF ~inited THEN tail
    ELSE LET distance == seq_distance(nseq, seq) IN
         IF distance < -(JITTER_BUFFER_SLOTS \div 2) THEN -1
         ELSE IF distance >= JITTER_BUFFER_SLOTS THEN -2
         ELSE (head + distance + JITTER_BUFFER_SLOTS) % JITTER_BUFFER_SLOTS

EmptySlot == [state |-> JB_SLOT_EMPTY, sequence |-> 0]

ZeroStats == [packets_received |-> 0, packets_lost |-> 0, packets_late |-> 0,
              packets_reorder |-> 0, underruns |-> 0, overruns |-> 0,
              loss_rate |-> <<0, 1>>]

\* (float)lost / (received + lost), kept exact
LossRate(st) == <<st.packets_lost, st.packets_received + st.packets_lost>>

-----------------------------------------------------------------------------
(* JitterBuffer_Create: calloc *)
JitterBuffer_Create ==
    /\ slots = [i \in 0..(JITTER_BUFFER_SLOTS - 1) |-> EmptySlot]
    /\ head = 0
    /\ tail = 0
    /\ count = 0
    /\ next_seq = 0
    /\ seq_initialized = FALSE
    /\ stats = ZeroStats

ObsInit ==
    /\ out = <<>>
    /\ jb_ret = 0
    /\ jb_op = [op |-> "Create", seq |-> 0]
    /\ nops = 0

\* Reset with the slot states left as they are (a forgotten clearing loop)
JitterBuffer_Reset_KeepSlots ==
    /\ slots' = slots
    /\ head' = 0
    /\ tail' = 0
    /\ count' = 0
    /\ seq_initialized' = FALSE
    /\ stats' = ZeroStats
    /\ UNCHANGED next_seq

JitterBuffer_Reset ==
    /\ slots' = [i \in 0..(JITTER_BUFFER_SLOTS - 1) |->
                    [slots[i] EXCEPT !.state = JB_SLOT_EMPTY]]
    /\ head' = 0
    /\ tail' = 0
    /\ count' = 0
    /\ seq_initialized' = FALSE
    /\ stats' = ZeroStats
    /\ UNCHANGED next_seq

\* A duplicate test that never matches
SlotHoldsSeq_Never(slot, seq) == FALSE

\* Put's duplicate test: the slot is in use and holds the incoming sequence
SlotHoldsSeq(slot, seq) == slot.state # JB_SLOT_EMPTY /\ slot.sequence = seq

\* Put of a packet with a non-empty payload and the given sequence number.
JitterBuffer_Put(seq) ==
    LET nseq     == IF seq_initialized THEN next_seq ELSE seq
        slot_idx == find_slot_for_seq(TRUE, nseq, seq)
    IN  /\ seq_initialized' = TRUE
        /\ next_seq' = nseq
        /\ UNCHANGED <<head, tail>>
        /\ IF slot_idx = -1 THEN
                /\ stats' = [stats EXCEPT !.packets_late = @ + 1]
                /\ jb_ret' = -2
                /\ UNCHANGED <<slots, count>>
           ELSE IF slot_idx = -2 THEN
                /\ stats' = [stats EXCEPT !.overruns = @ + 1]
                /\ jb_ret' = -3
                /\ UNCHANGED <<slots, count>>
           ELSE IF SlotHoldsSeq(slots[slot_idx], seq) THEN
                /\ jb_ret' = 0
                /\ UNCHANGED <<slots, count, stats>>
           ELSE
                /\ stats' = [stats EXCEPT
                     !.packets_reorder =
                        IF seq_compare(seq, nseq) # 0 /\ count > 0 THEN @ + 1 ELSE @,
                     !.packets_received = @ + 1]
                /\ slots' = [slots EXCEPT ![slot_idx] =
                                [state |-> JB_SLOT_FILLED, sequence |-> seq]]
                /\ count' = count + 1
                /\ jb_ret' = 0

\* decode_slot: the slot after decoding, DECODED when the decoder is set and succeeds
decode_slot(slot, dec_ok) ==
    IF slot.state = JB_SLOT_FILLED /\ dec_ok
    THEN [slot EXCEPT !.state = JB_SLOT_DECODED]
    ELSE slot

PlcFrame == [kind |-> "plc", seq |-> -1]
PcmFrame(s) == [kind |-> "pcm", seq |-> s]

\* Get's early return without the fast-start test on count
GetHasNothing_NoCount == ~seq_initialized

\* Get returns 0: nothing was ever put, or nothing is buffered
GetHasNothing == ~seq_initialized \/ count < 1

\* Get; dec_ok: a decoder is set and decodes the head slot's payload.
JitterBuffer_Get(dec_ok) ==
    IF GetHasNothing THEN
        /\ jb_ret' = 0
        /\ UNCHANGED <<jbVars, out>>
    ELSE IF slots[head].state = JB_SLOT_EMPTY THEN
        /\ stats' = LET st == [stats EXCEPT !.packets_lost = @ + 1,
                                            !.underruns = @ + 1]
                    IN  IF st.packets_received > 0
                        THEN [st EXCEPT !.loss_rate = LossRate(st)]
                        ELSE st
        /\ out' = Append(out, PlcFrame)
        /\ next_seq' = SeqInc(next_seq)
        /\ head' = (head + 1) % JITTER_BUFFER_SLOTS
        /\ jb_ret' = AUDIO_FRAME_SAMPLES
        /\ UNCHANGED <<slots, tail, count, seq_initialized>>
    ELSE LET slot == decode_slot(slots[head], dec_ok) IN
        IF slots[head].state = JB_SLOT_FILLED /\ slot.state # JB_SLOT_DECODED THEN
            /\ out' = Append(out, PlcFrame)
            /\ slots' = [slots EXCEPT ![head].state = JB_SLOT_EMPTY]
            /\ next_seq' = SeqInc(next_seq)
            /\ head' = (head + 1) % JITTER_BUFFER_SLOTS
            /\ count' = count - 1
            /\ jb_ret' = AUDIO_FRAME_SAMPLES
            /\ UNCHANGED <<tail, seq_initialized, stats>>
        ELSE
            /\ out' = Append(out, PcmFrame(slot.sequence))
            /\ slots' = [slots EXCEPT ![head].state = JB_SLOT_EMPTY]
            /\ next_seq' = SeqInc(next_seq)
            /\ head' = (head + 1) % JITTER_BUFFER_SLOTS
            /\ count' = count - 1
            /\ jb_ret' = AUDIO_FRAME_SAMPLES
            /\ UNCHANGED <<tail, seq_initialized, stats>>

-----------------------------------------------------------------------------
(* The server: session table, TCP reader thread, accept thread, UDP relay *)

HEARTBEAT_TIMEOUT == 10000   \* ms
MAX_CLIENTS == 16            \* entries of the client's peer table

(* Bounds of the server model *)
MaxClients  == 2             \* session slots modelled (MAX_CLIENTS in the program)
MaxAccepts  == 3             \* connections made to the server
MaxSelects  == 2             \* times select reports readable sockets
MaxDatagrams == 1            \* RTP datagrams that reach the server
TickMs      == 12000         \* the clock advances in steps of TickMs
MaxNowMs    == 12000         \* the clock stops here

Slots     == 0..(MaxClients - 1)
PeerIps   == {"10.0.0.1"}                     \* TCP peer addresses of connecting clients
UdpPorts  == {7001}                           \* local_udp_port values of JOIN_SESSION
ClientIds == {1, 2}                           \* non-zero client ids
Ssrcs     == {0, 1, 2}                        \* SSRCs of incoming RTP datagrams

ZeroAddr == [ip |-> "0.0.0.0", port |-> 0]

\* memset(session, 0, sizeof(ClientSession))
ZeroSession ==
    [active |-> FALSE, tcp_socket |-> 0, client_id |-> 0, ssrc |-> 0,
     tcp_ip |-> "0.0.0.0", udp_port |-> 0, udp_addr |-> ZeroAddr,
     last_heartbeat |-> 0, audio_active |-> FALSE, is_talking |-> FALSE,
     is_muted |-> FALSE, hello_done |-> FALSE]

\* No removal is waiting for its notification / no datagram is waiting for its relay
NoLeaving == [id |-> 0, sock |-> 0, slot |-> -1, cause |-> "none", back |-> "none"]
NoRtp == <<>>

SlotSeq == [k \in 1..MaxClients |-> k - 1]

\* A search that always ends at index 0
Min_Zero(S) == 0

Min(S) == CHOOSE x \in S : \A y \in S : x <= y

\* A TCP control message on the wire: to is the socket it is written to,
\* peers the PEER_LIST array
TcpMsg(type, to, id, list) == [type |-> type, to |-> to, id |-> id, peers |-> list]

\* What the last step was: its kind, the slot and socket it worked on, the id it carried
SrvOp(op, slot, sock, id) == [op |-> op, slot |-> slot, sock |-> sock, id |-> id]

\* The loop of BroadcastTcpMessage with the exclusion left out
BroadcastTcpMessage_ToAll(tbl, type, id, exclude_id) ==
    LET Test(j) == tbl[j].active
        to == SelectSeq(SlotSeq, Test)
    IN  [k \in 1..Len(to) |-> TcpMsg(type, tbl[to[k]].tcp_socket, id, <<>>)]

\* BroadcastTcpMessage: one send per active session whose client_id differs
BroadcastTcpMessage(tbl, type, id, exclude_id) ==
    LET Test(j) == tbl[j].active /\ tbl[j].client_id # exclude_id
        to == SelectSeq(SlotSeq, Test)
    IN  [k \in 1..Len(to) |-> TcpMsg(type, tbl[to[k]].tcp_socket, id, <<>>)]

NotifyPeerJoin(tbl, id) == BroadcastTcpMessage(tbl, "PEER_JOIN", id, id)

NotifyPeerLeave(tbl, id) == BroadcastTcpMessage(tbl, "PEER_LEAVE", id, id)

\* The relay loop without the exclusion of the sender's own SSRC
BroadcastUdpAudio_Echo(tbl, exclude_ssrc) ==
    LET Test(j) == tbl[j].active /\ tbl[j].audio_active
        to == SelectSeq(SlotSeq, Test)
    IN  [k \in 1..Len(to) |-> [to |-> to[k], addr |-> tbl[to[k]].udp_addr]]

\* BroadcastUdpAudio: one datagram per active, audio_active session of another SSRC
BroadcastUdpAudio(tbl, exclude_ssrc) ==
    LET Test(j) == tbl[j].active /\ tbl[j].audio_active /\ tbl[j].ssrc # exclude_ssrc
        to == SelectSeq(SlotSeq, Test)
    IN  [k \in 1..Len(to) |-> [to |-> to[k], addr |-> tbl[to[k]].udp_addr]]

\* FindClientBySSRC: the first active session with the SSRC, or -1
FindClientBySSRC(tbl, s) ==
    LET hit == {j \in Slots : tbl[j].active /\ tbl[j].ssrc = s}
    IN  IF hit = {} THEN -1 ELSE Min(hit)

\* RemoveClient: the table afterwards (the socket is closed)
RemoveClient(tbl, index) ==
    IF tbl[index].active THEN [tbl EXCEPT ![index].active = FALSE] ELSE tbl

\* The PeerInfo entry that describes session j
PeerInfo(tbl, j) ==
    [client_id |-> tbl[j].client_id, ssrc |-> tbl[j].ssrc,
     is_talking |-> tbl[j].is_talking, is_muted |-> tbl[j].is_muted,
     audio_active |-> tbl[j].audio_active]

\* The entries of the PEER_LIST sent to session i (server.c:606-616)
PeerListFor(tbl, i) ==
    LET Test(j) == tbl[j].active /\ tbl[j].client_id # tbl[i].client_id
        js == SelectSeq(SlotSeq, Test)
    IN  [k \in 1..Len(js) |-> PeerInfo(tbl, js[k])]

Callback(name, id) == [name |-> name, id |-> id]

\* The control messages a connected peer may send. A HELLO carries the id the
\* client asks for; assigned is the id the server makes up when that is 0.
\* UNKNOWN is any message type the switch has no case for.
ControlMsgs ==
    [type : {"HELLO"}, client_id : {0} \cup ClientIds, assigned : ClientIds, port : {0}]
    \cup [type : {"JOIN_SESSION"}, client_id : {0}, assigned : {0}, port : UdpPorts]
    \cup [type : {"LEAVE_SESSION", "HEARTBEAT", "AUDIO_START", "AUDIO_STOP",
                  "AUDIO_MUTE", "AUDIO_UNMUTE", "UNKNOWN"},
          client_id : {0}, assigned : {0}, port : {0}]

\* HandleTcpPacket for session i: the table afterwards, and what was sent and called
HandleTcpPacket(tbl, i, m) ==
    CASE m.type = "HELLO" ->
            LET id == IF m.client_id # 0 THEN m.client_id ELSE m.assigned
            IN  [tbl  |-> [tbl EXCEPT ![i].client_id = id, ![i].ssrc = id,
                                      ![i].hello_done = TRUE],
                 sent |-> <<TcpMsg("HELLO_ACK", tbl[i].tcp_socket, id, <<>>)>>,
                 cb   |-> <<>>]
      [] m.type = "JOIN_SESSION" ->
            LET t1 == [tbl EXCEPT ![i].udp_port = m.port,
                                  ![i].udp_addr = [ip |-> tbl[i].tcp_ip, port |-> m.port],
                                  ![i].audio_active = TRUE]
            IN  [tbl  |-> t1,
                 sent |-> <<TcpMsg("JOIN_ACK", t1[i].tcp_socket, t1[i].ssrc, <<>>),
                            TcpMsg("PEER_LIST", t1[i].tcp_socket, 0, PeerListFor(t1, i))>>
                          \o NotifyPeerJoin(t1, t1[i].client_id),
                 cb   |-> <<Callback("onClientJoined", t1[i].client_id)>>]
      [] m.type = "LEAVE_SESSION" ->
            [tbl |-> [tbl EXCEPT ![i].audio_active = FALSE], sent |-> <<>>, cb |-> <<>>]
      [] m.type = "HEARTBEAT" ->
            [tbl |-> tbl,
             sent |-> <<TcpMsg("HEARTBEAT", tbl[i].tcp_socket, tbl[i].client_id, <<>>)>>,
             cb |-> <<>>]
      [] m.type = "AUDIO_START" ->
            [tbl |-> [tbl EXCEPT ![i].audio_active = TRUE], sent |-> <<>>, cb |-> <<>>]
      [] m.type = "AUDIO_STOP" ->
            [tbl |-> [tbl EXCEPT ![i].audio_active = FALSE, ![i].is_talking = FALSE],
             sent |-> <<>>, cb |-> <<>>]
      [] m.type = "AUDIO_MUTE" ->
            [tbl |-> [tbl EXCEPT ![i].is_muted = TRUE], sent |-> <<>>, cb |-> <<>>]
      [] m.type = "AUDIO_UNMUTE" ->
            [tbl |-> [tbl EXCEPT ![i].is_muted = FALSE], sent |-> <<>>, cb |-> <<>>]
      [] OTHER -> [tbl |-> tbl, sent |-> <<>>, cb |-> <<>>]

\* ---- the client's side of the peer messages (client.c HandleTcpPacket) ----

\* No peer message handled in the last step
NoPeerMsg == <<>>

\* The sockets whose far end is the observed client: the first connection made
ObservedSocks == {1}

\* t without its first entry equal to id (the loop with memmove and break)
RemoveFirst(t, id) ==
    LET hits == {k \in 1..Len(t) : t[k] = id} IN
    IF hits = {} THEN t
    ELSE LET k0 == Min(hits)
         IN  [k \in 1..(Len(t) - 1) |-> IF k < k0 THEN t[k] ELSE t[k + 1]]

\* HandleTcpPacket of the client, cases MSG_PEER_LIST, MSG_PEER_JOIN and
\* MSG_PEER_LEAVE: the peer table afterwards
Client_HandleTcpPacket(t, m) ==
    CASE m.type = "PEER_LIST" ->
            LET n == IF Len(m.peers) < MAX_CLIENTS THEN Len(m.peers) ELSE MAX_CLIENTS
            IN  [k \in 1..n |-> m.peers[k].client_id]
      [] m.type = "PEER_JOIN" ->
            IF Len(t) < MAX_CLIENTS THEN Append(t, m.id) ELSE t
      [] m.type = "PEER_LEAVE" -> RemoveFirst(t, m.id)
      [] OTHER -> t

IsPeerMsg(m) == m.type \in {"PEER_LIST", "PEER_JOIN", "PEER_LEAVE"}

\* The messages of ms written to the observed client's socket, in order
ToObserved(ms) ==
    LET Mine(m) == m.to \in ObservedSocks IN SelectSeq(ms, Mine)

\* The client's reassembly loop hands the messages to HandleTcpPacket in order
RECURSIVE Client_Deliver(_, _)
Client_Deliver(t, ms) ==
    IF ms = <<>> THEN t
    ELSE Client_Deliver(Client_HandleTcpPacket(t, Head(ms)), Tail(ms))

\* Client_Connect: peer_count = 0
PeersInit ==
    /\ peers = <<>>
    /\ cli_msg = NoPeerMsg

\* ---- the client's connection and session state (client.c) ----

MaxCliCalls == 6             \* calls and thread steps of the client

CliOp(op, ret) == [op |-> op, ret |-> ret]

\* Client_Init: memset(&g_client, 0, sizeof(g_client))
Client_Init ==
    [connected |-> FALSE, discovering |-> FALSE, in_session |-> FALSE,
     tcp_recv_thread |-> FALSE, audio_threads |-> FALSE]

\* Client_StartDiscovery; sock_ok: Network_CreateUdpBroadcast gave a socket
Client_StartDiscovery(c, sock_ok) ==
    IF c.discovering \/ ~sock_ok THEN [c |-> c, ret |-> FALSE]
    ELSE [c |-> [c EXCEPT !.discovering = TRUE], ret |-> TRUE]

\* Client_StopDiscovery
Client_StopDiscovery(c) ==
    IF ~c.discovering THEN c ELSE [c EXCEPT !.discovering = FALSE]

\* Client_LeaveSession: in_session cleared, the two audio threads joined
Client_LeaveSession(c) ==
    IF ~c.in_session THEN c
    ELSE [c EXCEPT !.in_session = FALSE, !.audio_threads = FALSE]

\* Client_Disconnect: returns at once when not connected; otherwise leaves the
\* session, clears connected and joins the control threads
Client_Disconnect(c) ==
    IF ~c.connected THEN c
    ELSE [Client_LeaveSession(c) EXCEPT !.connected = FALSE, !.tcp_recv_thread = FALSE]

\* Client_Connect; how is "refused" (a failure before connected is set),
\* "hello_failed" (the HELLO could not be sent) or "ok"
Client_Connect(c, how) ==
    IF c.connected \/ how = "refused" THEN [c |-> c, ret |-> FALSE]
    ELSE LET c1 == [c EXCEPT !.connected = TRUE, !.tcp_recv_thread = TRUE]
         IN  IF how = "hello_failed" THEN [c |-> Client_Disconnect(c1), ret |-> FALSE]
             ELSE [c |-> c1, ret |-> TRUE]

\* Client_JoinSession; send_ok: the JOIN_SESSION request was written
Client_JoinSession(c, send_ok) ==
    IF ~c.connected \/ c.in_session \/ ~send_ok THEN [c |-> c, ret |-> FALSE]
    ELSE [c |-> [c EXCEPT !.in_session = TRUE, !.audio_threads = TRUE], ret |-> TRUE]

\* TcpRecvThreadProc, lines 582-594: recv returned <= 0 without a timeout
\* (the server closed the connection or it broke); the thread ends
Client_ConnectionLost(c) ==
    [c EXCEPT !.connected = FALSE, !.tcp_recv_thread = FALSE]

CliInit ==
    /\ g_client = Client_Init
    /\ cli_op = CliOp("Init", TRUE)
    /\ cli_calls = 0

\* ---- the stream table of the mixer (jitter_buffer.c, MultiStreamJB_*) ----

MaxStreams == 2              \* max_streams (MAX_CLIENTS in the program)
MaxMsCalls == 5              \* calls made on the stream table
MsTickMs   == 4000           \* the clock advances in steps of MsTickMs
MaxMsTicks == 3              \* and stops after MaxMsTicks steps
CLEANUP_TIMEOUT == 10000     \* timeout_ms that PlaybackThreadProc passes to CleanupInactive

StreamIdx == 0..(MaxStreams - 1)
MsSsrcs   == {1, 2, 3}       \* SSRCs of the RTP packets offered
CoreResults == {0, -2}       \* JitterBuffer_Put on a stream that holds packets: stored, or late

\* jitter_buffer == NULL
NoCore == [id |-> 0, puts |-> 0]

\* JitterBuffer_Create: a new, empty core; id tells one creation from another
NewCore(id) == [id |-> id, puts |-> 0]

\* calloc(max_streams, sizeof(StreamInfo))
ZeroStream == [active |-> FALSE, ssrc |-> 0, last_active |-> 0, jitter_buffer |-> NoCore]

MsOp(op, ssrc, time, ret, slot, destroyed) ==
    [op |-> op, ssrc |-> ssrc, time |-> time, ret |-> ret, slot |-> slot,
     destroyed |-> destroyed]

\* The active entry the scan keeps as oldest_slot: the first one whose
\* last_active is below that of all entries before it and not above any after it
OldestSlot(tbl) ==
    LET act == {i \in StreamIdx : tbl[i].active}
        low == {i \in act : \A j \in act : tbl[i].last_active <= tbl[j].last_active}
    IN  IF low = {} THEN -1 ELSE Min(low)

\* The slot being (re)created for ssrc at time t: lines 452-484
CreateStream(tbl, slot, ssrc, t, id) ==
    [tbl |-> [tbl EXCEPT ![slot] = [active |-> TRUE, ssrc |-> ssrc, last_active |-> t,
                                    jitter_buffer |-> NewCore(id)]],
     slot |-> slot,
     destroyed |-> IF tbl[slot].active THEN <<tbl[slot].jitter_buffer.id>> ELSE <<>>]

\* find_or_create_stream that gives up when no entry is inactive
find_or_create_stream_NoEvict(tbl, ssrc, t, id) ==
    LET hit      == {i \in StreamIdx : tbl[i].active /\ tbl[i].ssrc = ssrc}
        inactive == {i \in StreamIdx : ~tbl[i].active}
    IN  IF hit # {} THEN
            [tbl |-> [tbl EXCEPT ![Min(hit)].last_active = t], slot |-> Min(hit),
             destroyed |-> <<>>]
        ELSE IF inactive # {} THEN CreateStream(tbl, Min(inactive), ssrc, t, id)
        ELSE [tbl |-> tbl, slot |-> -1, destroyed |-> <<>>]

\* find_or_create_stream that replaces the first active entry when none is inactive
find_or_create_stream_EvictFirst(tbl, ssrc, t, id) ==
    LET hit      == {i \in StreamIdx : tbl[i].active /\ tbl[i].ssrc = ssrc}
        inactive == {i \in StreamIdx : ~tbl[i].active}
        act      == {i \in StreamIdx : tbl[i].active}
    IN  IF hit # {} THEN
            [tbl |-> [tbl EXCEPT ![Min(hit)].last_active = t], slot |-> Min(hit),
             destroyed |-> <<>>]
        ELSE IF inactive # {} THEN CreateStream(tbl, Min(inactive), ssrc, t, id)
        ELSE IF act # {} THEN CreateStream(tbl, Min(act), ssrc, t, id)
        ELSE [tbl |-> tbl, slot |-> -1, destroyed |-> <<>>]

\* find_or_create_stream without the search for an entry of the SSRC
find_or_create_stream_NoFind(tbl, ssrc, t, id) ==
    LET inactive == {i \in StreamIdx : ~tbl[i].active}
        oldest   == OldestSlot(tbl)
    IN  IF inactive # {} THEN CreateStream(tbl, Min(inactive), ssrc, t, id)
        ELSE IF oldest # -1 THEN CreateStream(tbl, oldest, ssrc, t, id)
        ELSE [tbl |-> tbl, slot |-> -1, destroyed |-> <<>>]

\* find_or_create_stream: the table afterwards, the slot returned (-1 for NULL)
\* and the cores destroyed
find_or_create_stream(tbl, ssrc, t, id) ==
    LET hit      == {i \in StreamIdx : tbl[i].active /\ tbl[i].ssrc = ssrc}
        inactive == {i \in StreamIdx : ~tbl[i].active}
        oldest   == OldestSlot(tbl)
    IN  IF hit # {} THEN
            [tbl |-> [tbl EXCEPT ![Min(hit)].last_active = t], slot |-> Min(hit),
             destroyed |-> <<>>]
        ELSE IF inactive # {} THEN CreateStream(tbl, Min(inactive), ssrc, t, id)
        ELSE IF oldest # -1 THEN CreateStream(tbl, oldest, ssrc, t, id)
        ELSE [tbl |-> tbl, slot |-> -1, destroyed |-> <<>>]

\* MultiStreamJB_Put of a packet with a payload; r is what JitterBuffer_Put
\* returns when the stream already holds packets (a new core stores its first)
MultiStreamJB_Put(tbl, ssrc, t, id, r) ==
    LET f == find_or_create_stream(tbl, ssrc, t, id) IN
    IF f.slot = -1 THEN [tbl |-> f.tbl, ret |-> -2, slot |-> -1, destroyed |-> f.destroyed]
    ELSE LET res == IF f.tbl[f.slot].jitter_buffer.puts = 0 THEN 0 ELSE r
         IN  [tbl |-> [f.tbl EXCEPT ![f.slot].jitter_buffer.puts =
                                        IF res = 0 THEN @ + 1 ELSE @],
              ret |-> res, slot |-> f.slot, destroyed |-> f.destroyed]

\* MultiStreamJB_CleanupInactive: entries idle for more than timeout_ms are
\* destroyed and marked inactive
MultiStreamJB_CleanupInactive(tbl, t, timeout_ms) ==
    [i \in StreamIdx |->
        IF tbl[i].active /\ t - tbl[i].last_active > timeout_ms
        THEN [tbl[i] EXCEPT !.active = FALSE, !.jitter_buffer = NoCore]
        ELSE tbl[i]]

\* MultiStreamJB_Create
MsInit ==
    /\ streams = [i \in StreamIdx |-> ZeroStream]
    /\ ms_now = 0
    /\ ms_prev = [i \in StreamIdx |-> ZeroStream]
    /\ ms_op = MsOp("Create", 0, 0, 0, -1, <<>>)
    /\ ms_calls = 0

\* ---- the mixer (MultiStreamJB_GetMixed) ----

MaxMixStreams == 2           \* streams with arbitrary frames
MixFrameLen   == 2           \* samples per frame modelled (AUDIO_FRAME_SAMPLES in the program)

SampleVals == {-32768, 10000, 30000, 32767}    \* int16 samples

MaxOf(S) == CHOOSE x \in S : \A y \in S : x >= y

\* mix_buffer after "mix_buffer[j] += stream_buffer[j]" for j < got. The
\* int32_t accumulator holds at most max_streams * 32768 in magnitude, which
\* is far from its limits for the MAX_CLIENTS streams the program creates.
Accumulate(buf, frame) ==
    [j \in 1..Len(buf) |-> IF j <= Len(frame) THEN buf[j] + frame[j] ELSE buf[j]]

\* The loop over the streams, lines 595-611: the mix buffer after every frame
RECURSIVE MixLoop(_, _)
MixLoop(buf, frames) ==
    IF frames = <<>> THEN buf
    ELSE MixLoop(Accumulate(buf, Head(frames)), Tail(frames))

\* The output conversion with the two limits left out: (int16_t)val
Limit_CastOnly(val) ==
    LET m == val % SeqModulus IN IF m >= SeqModulus \div 2 THEN m - SeqModulus ELSE m

\* Lines 622-624: the value limited to the int16 range
Limit(val) == IF val > 32767 THEN 32767 ELSE IF val < -32768 THEN -32768 ELSE val

\* MultiStreamJB_GetMixed with max_samples = AUDIO_FRAME_SAMPLES: the samples
\* written (none when no stream returned a frame)
MultiStreamJB_GetMixed(frames) ==
    LET buf == MixLoop([j \in 1..MixFrameLen |-> 0], frames)
        output_samples == MaxOf({0} \cup {Len(frames[k]) : k \in 1..Len(frames)})
    IN  [j \in 1..output_samples |-> Limit(buf[j])]

MixFrames == UNION {[1..n -> SampleVals] : n \in 0..MixFrameLen}

\* What the streams return in one call: any frames for up to MaxMixStreams
\* streams, or the same one-sample frame from up to MAX_CLIENTS streams
MixInputs ==
    UNION {[1..k -> MixFrames] : k \in 0..MaxMixStreams}
    \cup {[i \in 1..n |-> <<v>>] : n \in 1..MAX_CLIENTS, v \in SampleVals}

MixInit ==
    /\ mix_in = <<>>
    /\ mix_out = <<>>
    /\ mix_op = "none"

\* ---- the discovery thread (client.c DiscoveryThreadProc) ----

DISCOVERY_INTERVAL == 3000   \* ms between two sweeps
MaxServers   == 2            \* entries of the directory modelled (MAX_SERVERS in the program)
MaxDiscRecvs == 4            \* datagrams the discovery socket receives
MaxDiscTicks == 2            \* the clock advances MaxDiscTicks times, by DISCOVERY_INTERVAL

DiscServerIds == {1, 2, 3}   \* server_id of the servers that answer
DiscResponses == [server_id : DiscServerIds, current_peers : {0, 1}]

DiscOp(op, id, found, fired, count_before) ==
    [op |-> op, id |-> id, found |-> found, cb |-> fired, count_before |-> count_before]

\* The search that never finds an entry
FindServer_None(tbl, id) == 0 - 1

\* Lines 528-534: the index of the first entry with the server_id, or -1
FindServer(tbl, id) ==
    LET hits == {k \in 1..Len(tbl) : tbl[k].server_id = id}
    IN  IF hits = {} THEN 0 - 1 ELSE Min(hits) - 1

\* onServerFound called for every response that was stored
ServerFoundFires_Always(found) == TRUE

\* Line 559: onServerFound is called when the entry is new
ServerFoundFires(found) == found < 0

\* Lines 524-561 for a valid DISCOVERY_RESPONSE: the directory afterwards,
\* the index found and whether onServerFound was called
Discovery_HandleResponse(tbl, resp, t) ==
    LET found == FindServer(tbl, resp.server_id)
        entry == [server_id |-> resp.server_id, peer_count |-> resp.current_peers,
                  last_seen |-> t]
    IN  IF found >= 0 THEN
            [tbl |-> [tbl EXCEPT ![found + 1] = entry], found |-> found,
             cb |-> ServerFoundFires(found)]
        ELSE IF Len(tbl) < MaxServers THEN
            [tbl |-> Append(tbl, entry), found |-> found, cb |-> ServerFoundFires(found)]
        ELSE [tbl |-> tbl, found |-> found, cb |-> FALSE]

\* Client_GetServers: the first max_count entries, copied under servers_mutex
Client_GetServers(tbl, max_count) ==
    SubSeq(tbl, 1, IF Len(tbl) < max_count THEN Len(tbl) ELSE max_count)

ServerIdsOf(tbl) == {tbl[k].server_id : k \in 1..Len(tbl)}

\* Client_StartDiscovery has run: the directory is empty, the thread starts
DiscInit ==
    /\ servers = <<>>
    /\ last_broadcast = 0
    /\ disc_now = DISCOVERY_INTERVAL
    /\ disc_local = 0
    /\ disc_pc = "top"
    /\ sweep_ids = {}
    /\ prev_ids = {}
    /\ found_calls = <<>>
    /\ disc_op = DiscOp("Start", 0, 0 - 1, FALSE, 0)
    /\ disc_recvs = 0

\* ---- framing of the TCP control stream ----
\* The stream is counted in units: the first unit of a header is its magic
\* word, the second stands for the rest of the header and is read as
\* payload_len; a payload byte is one unit.

PROTOCOL_MAGIC == 1398165571 \* 0x53565043
IntMax     == 2147483647     \* INT_MAX
HdrUnits   == 2              \* sizeof(PacketHeader), in units
RxBufCap   == 3              \* units recv_buf holds (MAX_PACKET_SIZE in the program)
MaxRxUnits == 4              \* units the peer writes

\* The words a peer may write: the magic, payload lengths 0 and 1, the
\* length that makes the frame one unit larger than recv_buf, the length
\* that makes header + payload wrap to 0, and INT_MAX (the sum wraps to a
\* negative int). A word with the top bit set is written as the int of the
\* same bits.
RxUnits == {PROTOCOL_MAGIC, 0, 1, RxBufCap - HdrUnits + 1, 0 - HdrUnits, IntMax}

\* (int)(a + b) for a small a >= 0 and a 32-bit word b
AddInt32(a, b) ==
    IF b > IntMax - a THEN (((b - IntMax) + (a - 1)) - IntMax) - 1 ELSE a + b

\* A check that accepts every header
PacketHeader_Validate_Any(buf) == TRUE

\* PacketHeader_Validate on the header at the start of buf
PacketHeader_Validate(buf) == buf[1] = PROTOCOL_MAGIC

Handed(buf, len) == <<[magic |-> buf[1], len |-> len]>>

\* Network_TcpRecv(sock, buf, len): recv is repeated until len units are
\* read or the peer has closed; nothing is read for len <= 0
Network_TcpRecv(wire, len) ==
    LET n == IF len <= 0 THEN 0 ELSE IF Len(wire) < len THEN Len(wire) ELSE len
    IN  [got |-> SubSeq(wire, 1, n), rest |-> SubSeq(wire, n + 1, Len(wire))]

\* Network_TcpRecvPacket(sock, buf, max_len): ret is -1 or the total length,
\* pkt what buf then starts with, rest the unread stream, overflow whether
\* the payload read wrote past max_len
Network_TcpRecvPacket(wire, max_len) ==
    LET h == Network_TcpRecv(wire, HdrUnits) IN
    IF Len(h.got) # HdrUnits THEN
        [ret |-> -1, pkt |-> <<>>, rest |-> h.rest, overflow |-> FALSE]
    ELSE IF ~PacketHeader_Validate(h.got) THEN
        [ret |-> -1, pkt |-> <<>>, rest |-> h.rest, overflow |-> FALSE]
    ELSE
        LET payload_len == h.got[2]
            total == AddInt32(HdrUnits, payload_len)
        IN  IF total > max_len THEN
                [ret |-> -1, pkt |-> <<>>, rest |-> h.rest, overflow |-> FALSE]
            ELSE IF payload_len = 0 THEN
                [ret |-> total, pkt |-> h.got, rest |-> h.rest, overflow |-> FALSE]
            ELSE
                LET b == Network_TcpRecv(h.rest, payload_len) IN
                IF Len(b.got) # payload_len THEN
                    [ret |-> -1, pkt |-> <<>>, rest |-> b.rest,
                     overflow |-> HdrUnits + Len(b.got) > max_len]
                ELSE [ret |-> total, pkt |-> h.got \o b.got, rest |-> b.rest,
                      overflow |-> FALSE]

\* No connection is being read
RxInit ==
    /\ rx_side = "server"
    /\ rx_wire = <<>>
    /\ rx_closed = FALSE
    /\ recv_buf = <<>>
    /\ rx_pc = "recv"
    /\ rx_handed = <<>>
    /\ rx_sent = 0

\* ---- the orchestrator: one process that is server or client (main.c) ----

MaxAppCalls == 5             \* entry points and thread steps

AppOp(op, c, r) ==
    [op |-> op, was_connected |-> c.connected,
     was_discovering |-> c.discovering, was_running |-> r]

\* A Server_Stop that leaves the server as it is
Server_Stop_Not(r) == r

\* Server_Stop, on g_server.running: a no-op when not running, else the
\* flag is cleared, the sockets closed and the four threads joined
Server_Stop_running(r) == FALSE

\* Server_Start, on g_server.running; sockets_ok: the three sockets could
\* be created. It refuses when the server already runs.
Server_Start_running(r, sockets_ok) ==
    IF r THEN [running |-> r, ret |-> FALSE]
    ELSE IF ~sockets_ok THEN [running |-> FALSE, ret |-> FALSE]
    ELSE [running |-> TRUE, ret |-> TRUE]

\* Server_Init and Client_Init have run, nothing is started
AppInit ==
    /\ running = FALSE
    /\ g_isServerMode = FALSE
    /\ g_opusEncoder = FALSE
    /\ app_op = AppOp("WinMain", Client_Init, FALSE)
    /\ app_calls = 0

\* ---- the stop calls and what they fire ----

MaxStopCalls == 5            \* start and stop calls

\* A Server_Stop that reports onStopped whether or not the server ran
Server_Stop_fires_Always(r) == <<"onStopped">>

\* The callbacks of Server_Stop: onStopped, at the end of a stop that ran
Server_Stop_fires(r) == IF r THEN <<"onStopped">> ELSE <<>>

\* Server_Stop on the session table: every session is closed
Server_Stop_clients(r, tbl) ==
    IF ~r THEN tbl ELSE [i \in DOMAIN tbl |-> [tbl[i] EXCEPT !.active = FALSE]]

\* The callbacks of Client_Disconnect: onDisconnected, at the end of a
\* disconnect that ran
Client_Disconnect_fires(c) == IF c.connected THEN <<"onDisconnected">> ELSE <<>>

\* The callbacks of Client_Connect: onConnected when it succeeds,
\* onDisconnected from the Client_Disconnect of a failed HELLO
Client_Connect_fires(c, how) ==
    IF c.connected \/ how = "refused" THEN <<>>
    ELSE IF how = "hello_failed" THEN <<"onDisconnected">>
    ELSE <<"onConnected">>

StopPrev(op) ==
    [g_client |-> g_client, running |-> running, clients |-> clients,
     client_count |-> client_count, op |-> op]

StopInit ==
    /\ stop_prev = [g_client |-> Client_Init, running |-> FALSE,
                    clients |-> [i \in Slots |-> ZeroSession],
                    client_count |-> 0, op |-> "Init"]
    /\ stop_op = [op |-> "Init", fired |-> <<>>]
    /\ stop_calls = 0

\* ---- the server's reader on well-formed streams ----

MaxCxMsgs == 2               \* messages a peer writes
Conns == {1, 2}              \* connections
CxPayloads == {0, 1}         \* payload lengths of the messages, in units

\* A unit of a stream: v is the word the reader sees; msg and off say which
\* unit of which message it is
CxUnit(v, msg, off) == [v |-> v, msg |-> msg, off |-> off]

\* Message number k with a payload of p units, as the peer writes it
CxMessage(k, p) ==
    [i \in 1..(HdrUnits + p) |->
        CxUnit(IF i = 1 THEN PROTOCOL_MAGIC ELSE IF i = 2 THEN p ELSE 0, k, i)]

Vals(buf) == [i \in 1..Len(buf) |-> buf[i].v]

\* The memmove that drops the whole buffer
Consume_All(buf, pkt_len) == <<>>

\* memmove(recv_buf, recv_buf + pkt_len, recv_len - pkt_len); recv_len -= pkt_len
Consume(buf, pkt_len) == SubSeq(buf, pkt_len + 1, Len(buf))

\* The reassembly loop on recv_buf: buf is what stays buffered, handed the
\* messages passed to HandleTcpPacket, in order
RECURSIVE Reassemble(_, _)
Reassemble(buf, handed) ==
    IF Len(buf) < HdrUnits THEN [buf |-> buf, handed |-> handed]
    ELSE IF ~PacketHeader_Validate(Vals(buf)) THEN [buf |-> <<>>, handed |-> handed]
    ELSE LET pkt_len == AddInt32(HdrUnits, buf[2].v) IN
         IF Len(buf) < pkt_len THEN [buf |-> buf, handed |-> handed]
         ELSE Reassemble(Consume(buf, pkt_len),
                         Append(handed, SubSeq(buf, 1, pkt_len)))

MaxTcpRoom == 1              \* messages the socket buffers towards a peer hold

\* Server_Stop has not been called; the threads are in their loops
HaltInit ==
    /\ stop_pc = "none"
    /\ thr = [accept |-> "accept", disc |-> "recv", udp |-> "recv"]
    /\ tcp_room = MaxTcpRoom
    /\ peer_reads = TRUE

\* Neither thread is inside a call on the stream table
GcInit ==
    /\ ms_mutex = "none"
    /\ ms_thr = [t \in {"ingest", "play"} |-> [pc |-> "idle", core |-> 0, arg |-> 0]]

ThrInit == HaltInit /\ GcInit

CxInit ==
    /\ cx_msgs = [c \in Conns |-> <<>>]
    /\ cx_wire = [c \in Conns |-> <<>>]
    /\ cx_buf = [c \in Conns |-> <<>>]
    /\ cx_open = [c \in Conns |-> "open"]
    /\ cx_log = <<>>

\* No packet is on its way
ArrInit ==
    /\ arrival = <<>>
    /\ arrived = <<>>

ExtInit ==
    /\ PeersInit /\ CliInit /\ MsInit /\ MixInit /\ DiscInit /\ RxInit /\ AppInit /\ StopInit /\ CxInit /\ ThrInit
    /\ ArrInit

\* TcpRecvThreadProc of the client: what the server's step wrote to the
\* observed socket is received and handled
ClientRecv ==
    LET ms == ToObserved(sent')
        pm == SelectSeq(ms, IsPeerMsg)
    IN  /\ peers' = Client_Deliver(peers, ms)
        /\ cli_msg' = IF pm = <<>> THEN NoPeerMsg
                      ELSE <<[type |-> pm[Len(pm)].type, id |-> pm[Len(pm)].id]>>
        /\ UNCHANGED restVars

\* Server_Init and Server_Start: an empty table, the threads at the top of their loops
Server_Start ==
    /\ clients = [i \in Slots |-> ZeroSession]
    /\ client_count = 0
    /\ now = 0
    /\ rd_pc = "select"
    /\ read_fds = {}
    /\ leaving = NoLeaving
    /\ udp_rtp = NoRtp
    /\ sent = <<>>
    /\ udp_sent = <<>>
    /\ cb = <<>>
    /\ srv_op = SrvOp("Start", -1, 0, 0)
    /\ srv_steps = [accept |-> 0, select |-> 0, udp |-> 0]

\* clients_mutex is not held by the TCP reader: it is at select, between its
\* two loops, in the unlocked window in which it notifies of a removal, or
\* it has left its loop
MutexFree == rd_pc \in {"select", "notify", "hb", "exit"}

\* GetTickCount64Ms advances while the reader waits in select
Tick ==
    /\ rd_pc = "select"
    /\ now + TickMs <= MaxNowMs
    /\ now' = now + TickMs
    /\ srv_op' = SrvOp("Tick", -1, 0, 0)
    /\ sent' = <<>> /\ udp_sent' = <<>> /\ cb' = <<>>
    /\ UNCHANGED <<clients, client_count, rd_pc, read_fds, leaving, udp_rtp,
                   srv_steps, coreVars>>

\* TcpAcceptThreadProc: one connection from ip, under clients_mutex. The new
\* socket is named by the number of the connection.
TcpAccept ==
    /\ MutexFree
    /\ srv_steps.accept < MaxAccepts
    /\ srv_steps' = [srv_steps EXCEPT !.accept = @ + 1]
    /\ sent' = <<>> /\ udp_sent' = <<>> /\ cb' = <<>>
    /\ \E ip \in PeerIps :
         LET free == {i \in Slots : ~clients[i].active} IN
         IF free = {} THEN
            /\ srv_op' = SrvOp("AcceptFull", -1, srv_steps.accept + 1, 0)
            /\ UNCHANGED <<clients, client_count>>
         ELSE
            LET slot == Min(free) IN
            /\ clients' = [clients EXCEPT ![slot] =
                              [ZeroSession EXCEPT !.tcp_socket = srv_steps.accept + 1,
                                                  !.tcp_ip = ip,
                                                  !.last_heartbeat = now,
                                                  !.active = TRUE]]
            /\ client_count' = client_count + 1
            /\ srv_op' = SrvOp("Accept", slot, srv_steps.accept + 1, 0)
    /\ UNCHANGED <<now, rd_pc, read_fds, leaving, udp_rtp, coreVars>>

\* Parity of the reader passes that ended early in a row (at a continue): it
\* tells one such pass from the next
IdlePass == IF srv_op.op \in {"Sleep", "SelectTimeout"} THEN 1 - srv_op.id ELSE 0

\* TcpRecvThreadProc, lines 418-443: FD_SET of the active sessions, then select;
\* limit bounds how often select reports readable sockets
TcpRecvSelectUpTo(limit) ==
    /\ rd_pc = "select"
    /\ sent' = <<>> /\ udp_sent' = <<>> /\ cb' = <<>>
    /\ LET act == {i \in Slots : clients[i].active} IN
       \/ /\ act = {}                      \* max_fd == 0: Sleep(10); continue
          /\ srv_op' = SrvOp("Sleep", -1, 0, IdlePass)
          /\ UNCHANGED <<rd_pc, read_fds, srv_steps>>
       \/ /\ act # {}                      \* select timed out: ret <= 0, continue
          /\ srv_op' = SrvOp("SelectTimeout", -1, 0, IdlePass)
          /\ UNCHANGED <<rd_pc, read_fds, srv_steps>>
       \/ /\ srv_steps.select < limit     \* some sockets are readable
          /\ \E R \in (SUBSET act) \ {{}} :
                /\ read_fds' = R
                /\ rd_pc' = "recv"
          /\ srv_op' = SrvOp("Select", -1, 0, 0)
          /\ srv_steps' = [srv_steps EXCEPT !.select = @ + 1]
    /\ UNCHANGED <<clients, client_count, now, leaving, udp_rtp, coreVars>>

TcpRecvSelect == TcpRecvSelectUpTo(MaxSelects)

\* TcpRecvThreadProc, lines 446-489: the next readable session is served. recv
\* returns <= 0 (EOF or error) and the session is removed, or it returns the
\* bytes of one control message.
TcpRecvClient ==
    /\ rd_pc = "recv"
    /\ LET i == Min(read_fds)
           back == IF read_fds \ {i} = {} THEN "hb" ELSE "recv"
       IN
       /\ read_fds' = read_fds \ {i}
       /\ udp_sent' = <<>>
       /\ IF ~clients[i].active THEN
             /\ srv_op' = SrvOp("Skip", i, 0, 0)
             /\ rd_pc' = back
             /\ sent' = <<>> /\ cb' = <<>>
             /\ UNCHANGED <<clients, client_count, leaving>>
          ELSE
             \/ /\ clients' = RemoveClient(clients, i)
                /\ client_count' = client_count - 1
                /\ leaving' = [id |-> clients[i].client_id, sock |-> clients[i].tcp_socket,
                               slot |-> i, cause |-> "eof", back |-> back]
                /\ rd_pc' = "notify"
                /\ sent' = <<>> /\ cb' = <<>>
                /\ srv_op' = SrvOp("RemoveEof", i, clients[i].tcp_socket,
                                   clients[i].client_id)
             \/ \E m \in ControlMsgs :
                  LET t0 == [clients EXCEPT ![i].last_heartbeat = now]
                      r  == HandleTcpPacket(t0, i, m)
                  IN  /\ clients' = r.tbl
                      /\ sent' = r.sent
                      /\ cb' = r.cb
                      /\ rd_pc' = back
                      /\ srv_op' = SrvOp(m.type, i, clients[i].tcp_socket,
                                         r.tbl[i].client_id)
                      /\ UNCHANGED <<client_count, leaving>>
    /\ UNCHANGED <<now, udp_rtp, srv_steps, coreVars>>

\* TcpRecvThreadProc, lines 458-465 and 501-508: with the mutex released,
\* NotifyPeerLeave and onClientLeft for the session just removed
TcpRecvNotify ==
    /\ rd_pc = "notify"
    /\ sent' = NotifyPeerLeave(clients, leaving.id)
    /\ cb' = <<Callback("onClientLeft", leaving.id)>>
    /\ udp_sent' = <<>>
    /\ srv_op' = SrvOp(IF leaving.cause = "eof" THEN "NotifyLeaveEof"
                                                ELSE "NotifyLeaveTimeout",
                       leaving.slot, leaving.sock, leaving.id)
    /\ rd_pc' = leaving.back
    /\ leaving' = NoLeaving
    /\ UNCHANGED <<clients, client_count, now, read_fds, udp_rtp, srv_steps, coreVars>>

Expired(tbl, i) == tbl[i].active /\ now - tbl[i].last_heartbeat > HEARTBEAT_TIMEOUT

\* TcpRecvThreadProc, lines 492-512: the heartbeat loop up to its next removal
TcpRecvHeartbeat ==
    /\ rd_pc = "hb"
    /\ udp_sent' = <<>> /\ sent' = <<>> /\ cb' = <<>>
    /\ LET exp == {i \in Slots : Expired(clients, i)} IN
       IF exp = {} THEN
          /\ rd_pc' = "select"
          /\ srv_op' = SrvOp("HeartbeatDone", -1, 0, 0)
          /\ UNCHANGED <<clients, client_count, leaving>>
       ELSE
          LET i == Min(exp) IN
          /\ clients' = RemoveClient(clients, i)
          /\ client_count' = client_count - 1
          /\ leaving' = [id |-> clients[i].client_id, sock |-> clients[i].tcp_socket,
                         slot |-> i, cause |-> "timeout", back |-> "hb"]
          /\ rd_pc' = "notify"
          /\ srv_op' = SrvOp("RemoveTimeout", i, clients[i].tcp_socket,
                             clients[i].client_id)
    /\ UNCHANGED <<now, read_fds, udp_rtp, srv_steps, coreVars>>

\* The steps of the TCP reader thread
TcpRecvThreadProc == TcpRecvSelect \/ TcpRecvClient \/ TcpRecvNotify \/ TcpRecvHeartbeat

\* UdpAudioThreadProc, lines 530-539: an RTP datagram with SSRC s and VAD flag
\* vad is accepted; the sender is looked up and marked without the mutex
UdpAudioRecv ==
    /\ udp_rtp = NoRtp
    /\ srv_steps.udp < MaxDatagrams
    /\ srv_steps' = [srv_steps EXCEPT !.udp = @ + 1]
    /\ \E s \in Ssrcs : \E vad \in BOOLEAN :
         LET sender == FindClientBySSRC(clients, s) IN
         /\ clients' = IF sender = -1 THEN clients
                       ELSE [clients EXCEPT ![sender].is_talking = vad]
         /\ udp_rtp' = <<s>>
         /\ srv_op' = SrvOp("UdpRecv", sender, 0, s)
    /\ sent' = <<>> /\ udp_sent' = <<>> /\ cb' = <<>>
    /\ UNCHANGED <<client_count, now, rd_pc, read_fds, leaving, coreVars>>

\* UdpAudioThreadProc, line 552: BroadcastUdpAudio of that datagram, under the mutex
UdpAudioRelay ==
    /\ udp_rtp # NoRtp
    /\ MutexFree
    /\ udp_sent' = BroadcastUdpAudio(clients, udp_rtp[1])
    /\ srv_op' = SrvOp("UdpAudio", -1, 0, udp_rtp[1])
    /\ udp_rtp' = NoRtp
    /\ sent' = <<>> /\ cb' = <<>>
    /\ UNCHANGED <<clients, client_count, now, rd_pc, read_fds, leaving, srv_steps,
                   coreVars>>

\* The server on its own: the observed client's table is not part of the step
NextSrv ==
    \/ Tick /\ UNCHANGED extVars
    \/ TcpAccept /\ UNCHANGED extVars
    \/ TcpRecvSelect /\ UNCHANGED extVars
    \/ TcpRecvClient /\ UNCHANGED extVars
    \/ TcpRecvNotify /\ UNCHANGED extVars
    \/ TcpRecvHeartbeat /\ UNCHANGED extVars
    \/ UdpAudioRecv /\ UNCHANGED extVars
    \/ UdpAudioRelay /\ UNCHANGED extVars

InitSrv ==
    /\ JitterBuffer_Create
    /\ ObsInit
    /\ snd_first = 0 /\ snd_drop = 0 /\ snd_i = 0
    /\ pair_seq = [p \in {"a", "b"} |-> 0]
    /\ pair_ret = [p \in {"a", "b"} |-> <<>>]
    /\ Server_Start
    /\ ExtInit

SpecSrv == InitSrv /\ [][NextSrv]_vars

\* The reader thread keeps running: whenever it can take a step it takes one
SpecSrvFair == SpecSrv /\ WF_vars(TcpRecvThreadProc /\ UNCHANGED extVars)

\* ---- the server together with the observed client ----

MaxPeerSelects == 3          \* readable selects in the composed specification

\* Each step of the server, followed by the observed client handling what
\* that step sent to it
NextPeers ==
    \/ TcpAccept /\ ClientRecv
    \/ TcpRecvSelectUpTo(MaxPeerSelects) /\ ClientRecv
    \/ TcpRecvClient /\ ClientRecv
    \/ TcpRecvNotify /\ ClientRecv
    \/ TcpRecvHeartbeat /\ ClientRecv

SpecPeers == InitSrv /\ [][NextPeers]_vars

\* C11: after the client has handled PEER_LEAVE for client_id X, its peer table
\* holds no entry with client_id X, whatever PEER_LIST and PEER_JOIN messages
\* the server sent it before
C11_PeerLeaveRemovesId ==
    (cli_msg # NoPeerMsg /\ cli_msg[1].type = "PEER_LEAVE")
        => \A k \in 1..Len(peers) : peers[k] # cli_msg[1].id

-----------------------------------------------------------------------------
(* Properties of the server *)

IsJoined(tbl, i) == tbl[i].active /\ tbl[i].audio_active

\* Slots the last relay sent the datagram to
UdpRecipients == {udp_sent[k].to : k \in 1..Len(udp_sent)}

(* C1: a datagram with SSRC s accepted by the UDP audio reader is forwarded
   exactly to the active sessions with audio_active set and an SSRC other
   than s, once each and to the session's UDP address: never back to a
   session of SSRC s and never to a session whose audio_active is clear. *)
C1_UdpFanOut ==
    srv_op.op = "UdpAudio" =>
        /\ UdpRecipients = {i \in Slots : IsJoined(clients, i) /\ clients[i].ssrc # srv_op.id}
        /\ Len(udp_sent) = Cardinality(UdpRecipients)
        /\ \A k \in 1..Len(udp_sent) : udp_sent[k].addr = clients[udp_sent[k].to].udp_addr

\* A relay that reached some session while a joined session of the datagram's
\* own SSRC was left out
C1_Witness ==
    /\ srv_op.op = "UdpAudio"
    /\ udp_sent # <<>>
    /\ \E i \in Slots : IsJoined(clients, i) /\ clients[i].ssrc = srv_op.id

(* C4: an active session whose last_heartbeat is more than 10 s old is
   eventually removed (or heard from again), whether or not any TCP traffic
   reaches the server in the meantime. *)
C4_TimeoutEvicts ==
    \A i \in Slots : Expired(clients, i) ~> ~Expired(clients, i)

(* C7: in every reachable state a session with audio_active set has a valid
   UDP remote address: its TCP peer IP with a UDP port supplied by a
   JOIN_SESSION, never the unset address. *)
C7_AudioActiveHasUdpAddr ==
    \A i \in Slots :
        IsJoined(clients, i) =>
            /\ clients[i].udp_addr # ZeroAddr
            /\ clients[i].udp_addr.ip = clients[i].tcp_ip
            /\ clients[i].udp_addr.port \in UdpPorts

(* C8: a session becomes JOINED (audio_active set, JOIN_ACK and PEER_JOIN
   emitted, eligible as UDP recipient) only after a HELLO was processed on its
   connection; JOIN_SESSION or AUDIO_START in state NEW does not join it. *)
C8_JoinedOnlyAfterHello ==
    /\ \A i \in Slots : IsJoined(clients, i) => clients[i].hello_done
    /\ (srv_op.op = "JOIN_SESSION" /\ ~clients[srv_op.slot].hello_done) => sent = <<>>
    /\ srv_op.op = "UdpAudio" => \A i \in UdpRecipients : clients[i].hello_done

\* The last step sent the notifications for a removed session
NotifiedLeave == srv_op.op \in {"NotifyLeaveEof", "NotifyLeaveTimeout"}

\* Sockets the last step wrote a message of the type to
SentTo(type) == {sent[k].to : k \in {n \in 1..Len(sent) : sent[n].type = type}}

CountSent(type) == Cardinality({n \in 1..Len(sent) : sent[n].type = type})

SocketsOf(S) == {clients[i].tcp_socket : i \in S}

(* C9, as stated: on removing a session for EOF, recv error or heartbeat
   timeout the server sends exactly one PEER_LEAVE with its client_id to every
   other active session, none to the removed one, and calls onClientLeft once. *)
C9_PeerLeaveToAllOthers ==
    NotifiedLeave =>
        /\ \A k \in 1..Len(sent) : sent[k].type = "PEER_LEAVE" /\ sent[k].id = srv_op.id
        /\ SentTo("PEER_LEAVE") = SocketsOf({i \in Slots : clients[i].active})
        /\ Len(sent) = Cardinality(SentTo("PEER_LEAVE"))
        /\ srv_op.sock \notin SentTo("PEER_LEAVE")
        /\ cb = <<Callback("onClientLeft", srv_op.id)>>

(* C9, amended: the PEER_LEAVE goes exactly once to every active session whose
   client_id differs from the removed session's, none to the removed session,
   and onClientLeft is called exactly once. *)
C9_PeerLeaveToOtherIds ==
    NotifiedLeave =>
        /\ \A k \in 1..Len(sent) : sent[k].type = "PEER_LEAVE" /\ sent[k].id = srv_op.id
        /\ SentTo("PEER_LEAVE") =
              SocketsOf({i \in Slots : clients[i].active /\ clients[i].client_id # srv_op.id})
        /\ Len(sent) = Cardinality(SentTo("PEER_LEAVE"))
        /\ srv_op.sock \notin SentTo("PEER_LEAVE")
        /\ cb = <<Callback("onClientLeft", srv_op.id)>>

\* A removal was notified to some session while another active session with
\* the removed session's client_id got nothing
C9_Witness ==
    /\ NotifiedLeave
    /\ sent # <<>>
    /\ \E i \in Slots : clients[i].active /\ clients[i].client_id = srv_op.id

(* C10: the PEER_LIST sent in reply to JOIN_SESSION holds exactly the other
   sessions that are active and joined at that moment, never the requester;
   the PEER_JOIN for the requester goes to every other active session and not
   to the requester. *)
C10_PeerListOfJoined ==
    srv_op.op = "JOIN_SESSION" =>
        LET i == srv_op.slot
            Joined(j) == j # i /\ IsJoined(clients, j)
            js == SelectSeq(SlotSeq, Joined)
        IN  /\ CountSent("PEER_LIST") = 1
            /\ \A k \in 1..Len(sent) :
                  sent[k].type = "PEER_LIST" =>
                      /\ sent[k].to = srv_op.sock
                      /\ sent[k].peers = [n \in 1..Len(js) |-> PeerInfo(clients, js[n])]
            /\ SentTo("PEER_JOIN") = SocketsOf({j \in Slots : j # i /\ clients[j].active})
            /\ CountSent("PEER_JOIN") = Cardinality(SentTo("PEER_JOIN"))
            /\ \A k \in 1..Len(sent) : sent[k].type = "PEER_JOIN" => sent[k].id = srv_op.id

-----------------------------------------------------------------------------
(* One jitter core under arbitrary Put / Get / Reset calls *)

InitJB ==
    /\ JitterBuffer_Create
    /\ ObsInit
    /\ snd_first = 0 /\ snd_drop = 0 /\ snd_i = 0
    /\ pair_seq = [p \in {"a", "b"} |-> 0]
    /\ pair_ret = [p \in {"a", "b"} |-> <<>>]
    /\ Server_Start
    /\ ExtInit

PutCall ==
    /\ nops < MaxOps
    /\ \E seq \in IF seq_initialized
                  THEN {(next_seq + d) % SeqModulus : d \in Offsets}
                  ELSE FirstSeqs :
          /\ JitterBuffer_Put(seq)
          /\ jb_op' = [op |-> "Put", seq |-> seq]
    /\ nops' = nops + 1
    /\ UNCHANGED <<out, sndVars, pairVars, srvVars, srvObs, extVars>>

GetCall ==
    /\ nops < MaxOps
    /\ \E dec_ok \in BOOLEAN : JitterBuffer_Get(dec_ok)
    /\ jb_op' = [op |-> "Get", seq |-> 0]
    /\ nops' = nops + 1
    /\ UNCHANGED <<sndVars, pairVars, srvVars, srvObs, extVars>>

ResetCall ==
    /\ nops < MaxOps
    /\ JitterBuffer_Reset
    /\ jb_op' = [op |-> "Reset", seq |-> 0]
    /\ jb_ret' = 0
    /\ nops' = nops + 1
    /\ out' = <<>>
    /\ UNCHANGED <<sndVars, pairVars, srvVars, srvObs, extVars>>

NextJB == PutCall \/ GetCall \/ ResetCall

SpecJB == InitJB /\ [][NextJB]_vars

\* A step of Put: the distance of its packet from next_seq as Put uses it
PutStep == jb_op'.op = "Put" /\ nops' = nops + 1
PutDistance == seq_distance(next_seq', jb_op'.seq)
PutSlot == (head + PutDistance + JITTER_BUFFER_SLOTS) % JITTER_BUFFER_SLOTS

\* C28: a Put whose distance from next_seq is below -8 (at least 16) leaves
\* slots, head, next_seq and count unchanged and increments only packets_late
\* (overruns); every other non-duplicate packet is stored in slot
\* (head + distance) mod 16 and increments packets_received, and no accepted
\* Put overwrites a slot that still holds a different undelivered packet
C28_PutFrame ==
    [][PutStep =>
         IF PutDistance < -(JITTER_BUFFER_SLOTS \div 2) THEN
            /\ UNCHANGED <<slots, head, count>>
            /\ seq_initialized => UNCHANGED next_seq
            /\ stats' = [stats EXCEPT !.packets_late = @ + 1]
         ELSE IF PutDistance >= JITTER_BUFFER_SLOTS THEN
            /\ UNCHANGED <<slots, head, count>>
            /\ seq_initialized => UNCHANGED next_seq
            /\ stats' = [stats EXCEPT !.overruns = @ + 1]
         ELSE IF /\ slots[PutSlot].state # JB_SLOT_EMPTY
                 /\ slots[PutSlot].sequence = jb_op'.seq THEN
            TRUE
         ELSE
            /\ slots' = [slots EXCEPT ![PutSlot] =
                            [state |-> JB_SLOT_FILLED, sequence |-> jb_op'.seq]]
            /\ stats'.packets_received = stats.packets_received + 1
            /\ slots[PutSlot].state = JB_SLOT_EMPTY
    ]_vars

-----------------------------------------------------------------------------
(* Slots that hold a packet *)
NonEmptySlots == {i \in 0..(JITTER_BUFFER_SLOTS - 1) : slots[i].state # JB_SLOT_EMPTY}

(* C29: in every reachable state of a jitter core, count equals the number
   of slots whose state is FILLED or DECODED, and so lies in 0..16, after any
   sequence of Put, Get and Reset. *)
C29_CountIsNonEmptySlots ==
    /\ count = Cardinality(NonEmptySlots)
    /\ count >= 0
    /\ count <= JITTER_BUFFER_SLOTS

\* a/b = c/d for fractions with positive denominators
SameFraction(x, y) == x[1] * y[2] = y[1] * x[2]

(* C6: in every reachable state of a jitter core no two non-EMPTY slots hold
   the same sequence number, whatever Puts (duplicate, reordered, late,
   wrapped), Gets and Resets were made. *)
C6_NoTwoSlotsSameSeq ==
    \A i \in NonEmptySlots : \A j \in NonEmptySlots :
        i # j => slots[i].sequence # slots[j].sequence

\* Two packets buffered across the 65535 -> 0 wrap, after a late packet was dropped
C6_Witness ==
    /\ \E i \in NonEmptySlots : slots[i].sequence = 65535
    /\ \E j \in NonEmptySlots : slots[j].sequence = 0
    /\ stats.packets_late > 0

(* C5: after every Get call loss_rate equals
   packets_lost / (packets_lost + packets_received) of the current counters,
   whichever branch Get took. *)
C5_LossRateAfterEveryGet ==
    (jb_op.op = "Get" /\ stats.packets_lost + stats.packets_received > 0)
        => SameFraction(stats.loss_rate, LossRate(stats))

-----------------------------------------------------------------------------
(* An in-order stream N, N+1, ... of MaxStream packets of which exactly one,
   N + snd_drop, never arrives; Put and Get interleave freely and the decoder
   always succeeds. *)

DropIndexes == 1..(MaxStream - 2)

InitLoss ==
    /\ JitterBuffer_Create
    /\ ObsInit
    /\ snd_first \in {0, 65530}
    /\ snd_drop \in DropIndexes
    /\ snd_i = 0
    /\ pair_seq = [p \in {"a", "b"} |-> 0]
    /\ pair_ret = [p \in {"a", "b"} |-> <<>>]
    /\ Server_Start
    /\ ExtInit

StreamSeq(i) == (snd_first + i) % SeqModulus

LossSend ==
    /\ snd_i < MaxStream
    /\ snd_i' = snd_i + 1
    /\ \/ /\ snd_i = snd_drop
          /\ UNCHANGED <<jbVars, obsVars>>
       \/ /\ snd_i # snd_drop
          /\ JitterBuffer_Put(StreamSeq(snd_i))
          /\ jb_op' = [op |-> "Put", seq |-> StreamSeq(snd_i)]
          /\ UNCHANGED <<out, nops>>
    /\ UNCHANGED <<snd_first, snd_drop, pairVars, srvVars, srvObs, extVars>>

LossGet ==
    /\ JitterBuffer_Get(TRUE)
    /\ jb_op' = [op |-> "Get", seq |-> 0]
    /\ UNCHANGED <<nops, sndVars, pairVars, srvVars, srvObs, extVars>>

NextLoss == LossSend \/ LossGet

SpecLoss == InitLoss /\ [][NextLoss]_vars

\* What a receiver of the stream should hear, frame by frame
ExpectedFrame(i) == IF i = snd_drop THEN PlcFrame ELSE PcmFrame(StreamSeq(i))

(* C3: for a stream of consecutive sequence numbers with exactly one number k
   missing (and no packet refused as overrun), the Gets return exactly one
   concealment frame, at the position of k between the frames of k-1 and k+1,
   and packets_lost is incremented exactly once. *)
C3_OnePlcAtGap ==
    stats.overruns = 0 =>
        /\ Len(out) <= MaxStream
        /\ \A i \in 1..Len(out) : out[i] = ExpectedFrame(i - 1)
        /\ stats.packets_lost = (IF Len(out) > snd_drop THEN 1 ELSE 0)
        /\ (snd_i = MaxStream /\ count = 0) => Len(out) = MaxStream

\* The whole stream was drained across the sequence wrap with the gap concealed
C3_Witness ==
    /\ snd_first = 65530
    /\ snd_i = MaxStream
    /\ stats.overruns = 0
    /\ Len(out) = MaxStream
    /\ out[snd_drop + 1] = PlcFrame
    /\ stats.packets_lost = 1

-----------------------------------------------------------------------------
(* Two packets a, b of one stream with |seq_a - seq_b| < 16, offered once each
   in either order, with Get calls interleaved anywhere. *)

MaxPairGets == 18

InitPair ==
    /\ JitterBuffer_Create
    /\ ObsInit
    /\ snd_first = 0 /\ snd_drop = 0 /\ snd_i = 0
    /\ \E a \in {100, 65530} : \E d \in 1..(JITTER_BUFFER_SLOTS - 1) :
          pair_seq = [p \in {"a", "b"} |-> IF p = "a" THEN a ELSE (a + d) % SeqModulus]
    /\ pair_ret = [p \in {"a", "b"} |-> <<>>]
    /\ Server_Start
    /\ ExtInit

PairPut ==
    \E p \in {"a", "b"} :
        /\ pair_ret[p] = <<>>
        /\ JitterBuffer_Put(pair_seq[p])
        /\ pair_ret' = [pair_ret EXCEPT ![p] = <<jb_ret'>>]
        /\ jb_op' = [op |-> "Put", seq |-> pair_seq[p]]
        /\ UNCHANGED <<out, nops, sndVars, pair_seq, srvVars, srvObs, extVars>>

PairGet ==
    /\ nops < MaxPairGets
    /\ JitterBuffer_Get(TRUE)
    /\ jb_op' = [op |-> "Get", seq |-> 0]
    /\ nops' = nops + 1
    /\ UNCHANGED <<sndVars, pairVars, srvVars, srvObs, extVars>>

NextPair == PairPut \/ PairGet

SpecPair == InitPair /\ [][NextPair]_vars

(* C2: for two packets of one stream with |seq_a - seq_b| < 16 offered to Put
   in either order with Gets interleaved, each is accepted or the older one
   (a) is counted late, and the accepted payloads come out of Get in ascending
   sequence order: a lower sequence number is never delivered after a higher. *)
C2_PairInOrder ==
    /\ pair_ret["b"] \in {<<>>, <<0>>}
    /\ pair_ret["a"] \in {<<>>, <<0>>, <<-2>>}
    /\ \A i \in 1..Len(out) : \A j \in 1..Len(out) :
          (i < j /\ out[i].kind = "pcm" /\ out[j].kind = "pcm")
              => seq_compare(out[j].seq, out[i].seq) > 0

\* clients_mutex is held by the reader thread from the start of its receive
\* loop to its end, except in the notify window; the accept thread, the
\* heartbeat check and BroadcastUdpAudio take and release it within a step
MutexHeldByReader == rd_pc = "recv"

\* C26: every read or write of the session table happens while clients_mutex
\* is held by the accessing thread; in particular the UDP thread's lookup
\* of the sender by SSRC and its update of is_talking never happen while
\* the reader thread holds the mutex
C26_TableAccessUnderMutex ==
    srv_op.op = "UdpRecv" => ~MutexHeldByReader

\* C27: the server's callbacks onClientJoined and onClientLeft are invoked
\* with clients_mutex released: no step that invokes a callback is taken by
\* the reader thread while it holds the mutex
C27_CallbacksOutsideMutex ==
    [][cb' # <<>> => ~MutexHeldByReader]_vars

-----------------------------------------------------------------------------
(* The client's calls in any order, and the loss of its control connection *)

CliStep(r, op) ==
    /\ cli_calls < MaxCliCalls
    /\ cli_calls' = cli_calls + 1
    /\ g_client' = r.c
    /\ cli_op' = CliOp(op, r.ret)
    /\ UNCHANGED notCli

CallStartDiscovery ==
    \E sock_ok \in BOOLEAN :
        CliStep(Client_StartDiscovery(g_client, sock_ok), "Client_StartDiscovery")

CallStopDiscovery ==
    CliStep([c |-> Client_StopDiscovery(g_client), ret |-> TRUE], "Client_StopDiscovery")

CallConnect ==
    \E how \in {"refused", "hello_failed", "ok"} :
        CliStep(Client_Connect(g_client, how), "Client_Connect")

CallDisconnect ==
    CliStep([c |-> Client_Disconnect(g_client), ret |-> TRUE], "Client_Disconnect")

CallJoinSession ==
    \E send_ok \in BOOLEAN :
        CliStep(Client_JoinSession(g_client, send_ok), "Client_JoinSession")

CallLeaveSession ==
    CliStep([c |-> Client_LeaveSession(g_client), ret |-> TRUE], "Client_LeaveSession")

\* The control connection is closed or breaks while the reader thread runs
ConnectionLost ==
    /\ g_client.connected
    /\ g_client.tcp_recv_thread
    /\ CliStep([c |-> Client_ConnectionLost(g_client), ret |-> TRUE], "ConnectionLost")

NextCli ==
    \/ CallStartDiscovery \/ CallStopDiscovery \/ CallConnect \/ CallDisconnect
    \/ CallJoinSession \/ CallLeaveSession \/ ConnectionLost

SpecCli == InitSrv /\ [][NextCli]_vars

\* C12: whenever connected is false, in_session is false and the audio
\* receive and playback threads are not running, also after the control
\* connection was closed or lost from the server side
C12_NotConnectedNotInSession ==
    ~g_client.connected => (~g_client.in_session /\ ~g_client.audio_threads)

-----------------------------------------------------------------------------
(* The stream table under packets of several sources, the clock and the sweep *)

\* GetTickCount64Ms advances
MsTick ==
    /\ ms_now < MaxMsTicks * MsTickMs
    /\ ms_now' = ms_now + MsTickMs
    /\ ms_op' = MsOp("Tick", 0, ms_now, 0, -1, <<>>)
    /\ ms_prev' = streams
    /\ UNCHANGED <<streams, ms_calls, notMs>>

\* UdpAudioRecvThreadProc: a datagram with a payload from another source is
\* handed to MultiStreamJB_Put
MsPut ==
    /\ ms_calls < MaxMsCalls
    /\ ms_calls' = ms_calls + 1
    /\ \E ssrc \in MsSsrcs : \E r \in CoreResults :
         LET p == MultiStreamJB_Put(streams, ssrc, ms_now, ms_calls + 1, r) IN
         /\ streams' = p.tbl
         /\ ms_op' = MsOp("Put", ssrc, ms_now, p.ret, p.slot, p.destroyed)
    /\ ms_prev' = streams
    /\ UNCHANGED <<ms_now, notMs>>

\* PlaybackThreadProc: the periodic MultiStreamJB_CleanupInactive
MsCleanup ==
    /\ ms_calls < MaxMsCalls
    /\ ms_calls' = ms_calls + 1
    /\ streams' = MultiStreamJB_CleanupInactive(streams, ms_now, CLEANUP_TIMEOUT)
    /\ ms_op' = MsOp("Cleanup", 0, ms_now, 0, -1, <<>>)
    /\ ms_prev' = streams
    /\ UNCHANGED <<ms_now, notMs>>

NextStreams == MsTick \/ MsPut \/ MsCleanup

SpecStreams == InitSrv /\ [][NextStreams]_vars

\* The last call was a Put of a packet whose SSRC had no active entry
PutOfNewSsrc ==
    /\ ms_op.op = "Put"
    /\ \A i \in StreamIdx : ~(ms_prev[i].active /\ ms_prev[i].ssrc = ms_op.ssrc)

\* C13: after a Put of a packet whose SSRC had no active entry, the table
\* holds an active entry with that SSRC whose last_active is not earlier than
\* the time of the call, whether the table had a free entry or was full
C13_NewSsrcGetsEntry ==
    PutOfNewSsrc =>
        \E i \in StreamIdx : /\ streams[i].active
                              /\ streams[i].ssrc = ms_op.ssrc
                              /\ streams[i].last_active >= ms_op.time

\* A Put of a new SSRC into a table whose entries were all active
C13_Witness ==
    /\ PutOfNewSsrc
    /\ \A i \in StreamIdx : ms_prev[i].active

\* Every entry but i is as it was before the call
OthersUnchanged(i) == \A j \in StreamIdx \ {i} : streams[j] = ms_prev[j]

\* Entry i now belongs to the SSRC of the call, with a core created by the call
CreatedAt(i) ==
    /\ streams[i].active
    /\ streams[i].ssrc = ms_op.ssrc
    /\ streams[i].last_active = ms_op.time
    /\ \A j \in StreamIdx : streams[i].jitter_buffer.id # ms_prev[j].jitter_buffer.id

\* C15: a Put whose SSRC has an active entry only refreshes that entry's
\* last_active; otherwise the first inactive entry is used and nothing is
\* evicted; otherwise the entry with the smallest last_active is destroyed and
\* replaced, the Put is not rejected, exactly one stream is evicted and all
\* other entries are unchanged
C15_InsertionPolicy ==
    ms_op.op = "Put" =>
        LET hit  == {i \in StreamIdx : ms_prev[i].active /\ ms_prev[i].ssrc = ms_op.ssrc}
            free == {i \in StreamIdx : ~ms_prev[i].active}
        IN  IF hit # {} THEN
                \E i \in hit :
                    /\ ms_op.slot = i
                    /\ OthersUnchanged(i)
                    /\ streams[i].active /\ streams[i].ssrc = ms_op.ssrc
                    /\ streams[i].last_active = ms_op.time
                    /\ streams[i].jitter_buffer.id = ms_prev[i].jitter_buffer.id
                    /\ ms_op.destroyed = <<>>
            ELSE IF free # {} THEN
                /\ ms_op.slot = Min(free)
                /\ OthersUnchanged(Min(free))
                /\ CreatedAt(Min(free))
                /\ ms_op.destroyed = <<>>
                /\ ms_op.ret = 0
            ELSE
                \E i \in StreamIdx :
                    /\ \A k \in StreamIdx :
                          ms_prev[i].last_active <= ms_prev[k].last_active
                    /\ ms_op.slot = i
                    /\ ms_op.destroyed = <<ms_prev[i].jitter_buffer.id>>
                    /\ OthersUnchanged(i)
                    /\ CreatedAt(i)
                    /\ ms_op.ret = 0

\* An eviction in which the least recently active entry was not the first one
C15_Witness ==
    /\ ms_op.op = "Put"
    /\ ms_op.destroyed # <<>>
    /\ ms_op.slot > 0
    /\ \E k \in StreamIdx : ms_prev[k].last_active > ms_prev[ms_op.slot].last_active

-----------------------------------------------------------------------------
(* One call of the mixer on the frames its streams return *)

InitMix ==
    /\ JitterBuffer_Create
    /\ ObsInit
    /\ snd_first = 0 /\ snd_drop = 0 /\ snd_i = 0
    /\ pair_seq = [p \in {"a", "b"} |-> 0]
    /\ pair_ret = [p \in {"a", "b"} |-> <<>>]
    /\ Server_Start
    /\ PeersInit /\ CliInit /\ MsInit /\ DiscInit /\ RxInit /\ AppInit /\ StopInit /\ CxInit /\ ThrInit
    /\ ArrInit
    /\ mix_in \in MixInputs
    /\ mix_out = <<>>
    /\ mix_op = "none"

\* PlaybackThreadProc calls MultiStreamJB_GetMixed
MixGet ==
    /\ mix_op = "none"
    /\ mix_out' = MultiStreamJB_GetMixed(mix_in)
    /\ mix_op' = "GetMixed"
    /\ UNCHANGED <<mix_in, notMix>>

NextMix == MixGet

SpecMix == InitMix /\ [][NextMix]_vars

\* The sum of the j-th samples of the frames that have one
RECURSIVE SumAt(_, _)
SumAt(frames, j) ==
    IF frames = <<>> THEN 0
    ELSE (IF j <= Len(Head(frames)) THEN Head(frames)[j] ELSE 0) + SumAt(Tail(frames), j)

\* C14: each mixed sample is the sum of the corresponding samples of the
\* frames the streams returned in that call, saturated to [-32768, 32767]; it
\* never leaves the int16 range, for up to 16 streams
C14_MixIsSaturatedSum ==
    mix_op = "GetMixed" =>
        /\ Len(mix_out) = MaxOf({0} \cup {Len(mix_in[k]) : k \in 1..Len(mix_in)})
        /\ \A j \in 1..Len(mix_out) :
              LET sum == SumAt(mix_in, j) IN
              /\ mix_out[j] >= -32768 /\ mix_out[j] <= 32767
              /\ (sum > 32767 => mix_out[j] = 32767)
              /\ (sum < -32768 => mix_out[j] = -32768)
              /\ (sum >= -32768 /\ sum <= 32767 => mix_out[j] = sum)

\* MAX_CLIENTS streams that each returned 30000 were mixed to 32767
C14_Witness ==
    /\ mix_op = "GetMixed"
    /\ mix_in = [i \in 1..MAX_CLIENTS |-> <<30000>>]
    /\ mix_out = <<32767>>

-----------------------------------------------------------------------------
(* The discovery thread: sweeps, responses, and the directory a reader sees *)

\* GetTickCountMs advances while the thread waits in recvfrom
DiscTick ==
    /\ disc_now < (MaxDiscTicks + 1) * DISCOVERY_INTERVAL
    /\ disc_now' = disc_now + DISCOVERY_INTERVAL
    /\ disc_op' = DiscOp("Tick", 0, 0 - 1, FALSE, Len(servers))
    /\ UNCHANGED <<servers, last_broadcast, disc_local, disc_pc, sweep_ids, prev_ids,
                   found_calls, disc_recvs, notDisc>>

\* Lines 495-513: the top of an iteration; when the interval has passed the
\* directory is cleared and the request is broadcast
DiscLoopTop ==
    /\ disc_pc = "top"
    /\ disc_local' = disc_now
    /\ disc_pc' = "recv"
    /\ IF disc_now - last_broadcast >= DISCOVERY_INTERVAL THEN
          /\ servers' = <<>>
          /\ last_broadcast' = disc_now
          /\ prev_ids' = ServerIdsOf(servers)
          /\ sweep_ids' = {}
          /\ found_calls' = <<>>
          /\ disc_op' = DiscOp("SweepStart", 0, 0 - 1, FALSE, Len(servers))
       ELSE
          /\ disc_op' = DiscOp("NoSweep", 0, 0 - 1, FALSE, Len(servers))
          /\ UNCHANGED <<servers, last_broadcast, prev_ids, sweep_ids, found_calls>>
    /\ UNCHANGED <<disc_now, disc_recvs, notDisc>>

\* Lines 516-567: recvfrom times out or returns something that is not a
\* valid DISCOVERY_RESPONSE
DiscRecvNothing ==
    /\ disc_pc = "recv"
    /\ disc_pc' = "top"
    /\ disc_op' = DiscOp("RecvNothing", 0, 0 - 1, FALSE, Len(servers))
    /\ UNCHANGED <<servers, last_broadcast, disc_now, disc_local, sweep_ids, prev_ids,
                   found_calls, disc_recvs, notDisc>>

\* Lines 516-567: recvfrom returns a valid DISCOVERY_RESPONSE
DiscRecvResponse ==
    /\ disc_pc = "recv"
    /\ disc_recvs < MaxDiscRecvs
    /\ disc_recvs' = disc_recvs + 1
    /\ disc_pc' = "top"
    /\ \E resp \in DiscResponses :
         LET r == Discovery_HandleResponse(servers, resp, disc_local) IN
         /\ servers' = r.tbl
         /\ sweep_ids' = sweep_ids \cup {resp.server_id}
         /\ found_calls' = IF r.cb THEN Append(found_calls, resp.server_id)
                                   ELSE found_calls
         /\ disc_op' = DiscOp("Response", resp.server_id, r.found, r.cb, Len(servers))
    /\ UNCHANGED <<last_broadcast, disc_now, disc_local, prev_ids, notDisc>>

NextDisc == DiscTick \/ DiscLoopTop \/ DiscRecvNothing \/ DiscRecvResponse

SpecDisc == InitSrv /\ [][NextDisc]_vars

\* What a reader gets from Client_GetServers now
Listed == ServerIdsOf(Client_GetServers(servers, MaxServers))

NoTwoWithOneId ==
    \A k, l \in 1..Len(servers) : servers[k].server_id = servers[l].server_id => k = l

\* C16 as stated: the directory holds exactly one entry for each distinct
\* server_id whose DISCOVERY_RESPONSE was received since the last clear, and
\* nothing else
C16_DirectoryIsSweep ==
    /\ NoTwoWithOneId
    /\ ServerIdsOf(servers) = sweep_ids

\* C16, with the capacity: the directory holds at most one entry per
\* server_id and only server_ids whose response was received since the last
\* clear; one of these is missing only when the directory is full
C16_DirectoryIsSweepUpToCapacity ==
    /\ NoTwoWithOneId
    /\ ServerIdsOf(servers) \subseteq sweep_ids
    /\ (ServerIdsOf(servers) # sweep_ids => Len(servers) = MaxServers)

\* A server answered twice within one sweep and is listed once
C16_Witness ==
    /\ disc_op.op = "Response"
    /\ disc_op.found >= 0
    /\ disc_op.id \in ServerIdsOf(servers)
    /\ ServerIdsOf(servers) = sweep_ids

\* C17: a server that answered the last completed sweep is still listed by
\* Client_GetServers while the next sweep is in progress
C17_ListedThroughNextSweep ==
    prev_ids \subseteq Listed

\* C18: within one sweep onServerFound is called at most once per server_id;
\* a second response from a server updates its entry in place, adds no entry
\* and calls no onServerFound
C18_FoundOncePerSweep ==
    /\ \A k, l \in 1..Len(found_calls) : found_calls[k] = found_calls[l] => k = l
    /\ (disc_op.op = "Response" /\ disc_op.found >= 0) =>
          /\ Len(servers) = disc_op.count_before
          /\ ~disc_op.cb
          /\ servers[disc_op.found + 1].server_id = disc_op.id
          /\ servers[disc_op.found + 1].last_seen = disc_local

\* The second response of a server within a sweep, after onServerFound for it
C18_Witness ==
    /\ disc_op.op = "Response"
    /\ disc_op.found >= 0
    /\ \E k \in 1..Len(found_calls) : found_calls[k] = disc_op.id

-----------------------------------------------------------------------------
(* A TCP control connection: any stream of units, cut into any pieces *)

InitRx ==
    /\ JitterBuffer_Create
    /\ ObsInit
    /\ snd_first = 0 /\ snd_drop = 0 /\ snd_i = 0
    /\ pair_seq = [p \in {"a", "b"} |-> 0]
    /\ pair_ret = [p \in {"a", "b"} |-> <<>>]
    /\ Server_Start
    /\ PeersInit /\ CliInit /\ MsInit /\ MixInit /\ DiscInit /\ AppInit /\ StopInit /\ CxInit /\ ThrInit
    /\ ArrInit
    /\ rx_side \in {"server", "client", "packet"}
    /\ rx_wire = <<>>
    /\ rx_closed = FALSE
    /\ recv_buf = <<>>
    /\ rx_pc = "recv"
    /\ rx_handed = <<>>
    /\ rx_sent = 0

\* The peer writes one more unit
RxSend ==
    /\ ~rx_closed
    /\ rx_sent < MaxRxUnits
    /\ rx_sent' = rx_sent + 1
    /\ \E u \in RxUnits : rx_wire' = Append(rx_wire, u)
    /\ rx_handed' = <<>>
    /\ UNCHANGED <<rx_side, rx_closed, recv_buf, rx_pc, notRx>>

\* The peer closes the connection
RxClose ==
    /\ ~rx_closed
    /\ rx_closed' = TRUE
    /\ rx_handed' = <<>>
    /\ UNCHANGED <<rx_side, rx_wire, recv_buf, rx_pc, rx_sent, notRx>>

\* recv(sock, recv_buf + recv_len, MAX_PACKET_SIZE - recv_len) in the server's
\* or the client's reader: some of the waiting units arrive; with no room
\* left, or at the end of the stream, recv returns 0 and the reader gives
\* the connection up
RxRecv ==
    /\ rx_side \in {"server", "client"}
    /\ rx_pc = "recv"
    /\ rx_handed' = <<>>
    /\ LET room == RxBufCap - Len(recv_buf) IN
       IF room = 0 \/ (rx_wire = <<>> /\ rx_closed) THEN
          /\ rx_pc' = "lost"
          /\ UNCHANGED <<rx_wire, recv_buf>>
       ELSE
          /\ rx_wire # <<>>
          /\ \E n \in 1..Len(rx_wire) :
                /\ n <= room
                /\ recv_buf' = recv_buf \o SubSeq(rx_wire, 1, n)
                /\ rx_wire' = SubSeq(rx_wire, n + 1, Len(rx_wire))
          /\ rx_pc' = "loop"
    /\ UNCHANGED <<rx_side, rx_closed, rx_sent, notRx>>

\* One iteration of the reassembly loop (server.c:473-487, client.c:599-613).
\* A negative pkt_len passes the length test; the memmove then reads and
\* writes outside recv_buf, after which the reader has crashed or goes on
\* with any words where the next header is looked for.
RxLoop ==
    /\ rx_pc = "loop"
    /\ IF Len(recv_buf) < HdrUnits THEN
          /\ rx_pc' = "recv"
          /\ rx_handed' = <<>>
          /\ UNCHANGED recv_buf
       ELSE IF ~PacketHeader_Validate(recv_buf) THEN
          /\ recv_buf' = <<>>
          /\ rx_pc' = "recv"
          /\ rx_handed' = <<>>
       ELSE
          LET pkt_len == AddInt32(HdrUnits, recv_buf[2]) IN
          IF Len(recv_buf) < pkt_len THEN
             /\ rx_pc' = "recv"
             /\ rx_handed' = <<>>
             /\ UNCHANGED recv_buf
          ELSE
             /\ rx_handed' = Handed(recv_buf, pkt_len)
             /\ IF pkt_len < 0 THEN
                   \/ rx_pc' = "crashed" /\ UNCHANGED recv_buf
                   \/ /\ rx_pc' = "loop"
                      /\ \E n \in 0..HdrUnits : recv_buf' \in [1..n -> RxUnits]
                ELSE
                   /\ recv_buf' = SubSeq(recv_buf, pkt_len + 1, Len(recv_buf))
                   /\ rx_pc' = "loop"
    /\ UNCHANGED <<rx_side, rx_wire, rx_closed, rx_sent, notRx>>

\* A call of Network_TcpRecvPacket with max_len = MAX_PACKET_SIZE. It returns
\* once the header and the payload it asks for have arrived, or the peer
\* has closed. A payload read past max_len overruns the caller's buffer.
RxPacket ==
    /\ rx_side = "packet"
    /\ rx_pc = "recv"
    /\ LET r == Network_TcpRecvPacket(rx_wire, RxBufCap)
           need == IF Len(rx_wire) < HdrUnits \/ ~PacketHeader_Validate(rx_wire)
                      \/ rx_wire[2] <= 0
                   THEN HdrUnits
                   ELSE AddInt32(HdrUnits, rx_wire[2])
       IN
       /\ rx_closed \/ (need >= 0 /\ Len(rx_wire) >= need)
       /\ rx_wire' = r.rest
       /\ recv_buf' = r.pkt
       /\ IF r.overflow THEN
             /\ rx_handed' = <<>>
             /\ rx_pc' \in {"crashed", "lost"}
          ELSE IF r.ret < 0 THEN
             /\ rx_handed' = <<>>
             /\ rx_pc' = "lost"
          ELSE
             /\ rx_handed' = Handed(r.pkt, r.ret)
             /\ rx_pc' = "recv"
    /\ UNCHANGED <<rx_side, rx_closed, rx_sent, notRx>>

NextRx == RxSend \/ RxClose \/ RxRecv \/ RxLoop \/ RxPacket

SpecRx == InitRx /\ [][NextRx]_vars

\* C19: every message the server's or the client's reassembly loop hands to
\* HandleTcpPacket, and every packet Network_TcpRecvPacket returns, starts
\* with a header whose magic is PROTOCOL_MAGIC, for every byte stream
C19_HandedHasMagic ==
    rx_handed # <<>> => rx_handed[1].magic = PROTOCOL_MAGIC

\* A message handed on after the stream had lost its framing: the header
\* before it was rejected and the buffer emptied
C19_Witness ==
    /\ rx_handed # <<>>
    /\ rx_sent > HdrUnits + 1
    /\ rx_wire = <<>>
    /\ Len(recv_buf) < HdrUnits

-----------------------------------------------------------------------------
(* The entry points of the window, in any order and with any outcome *)

\* WinMain up to the message loop: discovery is started
InitApp ==
    /\ JitterBuffer_Create
    /\ ObsInit
    /\ snd_first = 0 /\ snd_drop = 0 /\ snd_i = 0
    /\ pair_seq = [p \in {"a", "b"} |-> 0]
    /\ pair_ret = [p \in {"a", "b"} |-> <<>>]
    /\ Server_Start
    /\ PeersInit /\ MsInit /\ MixInit /\ DiscInit /\ RxInit
    /\ \E sock_ok \in BOOLEAN :
          g_client = Client_StartDiscovery(Client_Init, sock_ok).c
    /\ cli_op = CliOp("Init", TRUE)
    /\ cli_calls = 0
    /\ AppInit
    /\ StopInit /\ CxInit /\ ThrInit
    /\ ArrInit

AppStep(op) ==
    /\ app_calls < MaxAppCalls
    /\ app_calls' = app_calls + 1
    /\ app_op' = AppOp(op, g_client, running)
    /\ UNCHANGED <<cli_op, cli_calls, notApp>>

OnGuiStartServer ==
    /\ AppStep("OnGuiStartServer")
    /\ g_isServerMode' = TRUE
    /\ g_client' = Client_Disconnect(Client_StopDiscovery(g_client))
    /\ \E enc_ok \in BOOLEAN, sockets_ok \in BOOLEAN :
          IF ~g_opusEncoder /\ ~enc_ok THEN
             UNCHANGED <<g_opusEncoder, running>>
          ELSE
             /\ g_opusEncoder' = TRUE
             /\ running' = Server_Start_running(running, sockets_ok).running

OnGuiStopServer ==
    /\ AppStep("OnGuiStopServer")
    /\ running' = Server_Stop_running(running)
    /\ g_isServerMode' = FALSE
    /\ g_opusEncoder' = FALSE
    /\ \E sock_ok \in BOOLEAN :
          g_client' = Client_StartDiscovery(g_client, sock_ok).c

OnGuiConnect ==
    /\ AppStep("OnGuiConnect")
    /\ g_isServerMode' = FALSE
    /\ running' = Server_Stop_running(running)
    /\ \E enc_ok \in BOOLEAN, how \in {"refused", "hello_failed", "ok"},
          send_ok \in BOOLEAN :
          IF ~g_opusEncoder /\ ~enc_ok THEN
             UNCHANGED <<g_opusEncoder, g_client>>
          ELSE
             /\ g_opusEncoder' = TRUE
             /\ LET conn == Client_Connect(g_client, how)
                    join == Client_JoinSession(conn.c, send_ok)
                IN  g_client' = IF ~conn.ret THEN conn.c
                                ELSE IF ~join.ret THEN Client_Disconnect(join.c)
                                ELSE join.c

OnGuiDisconnect ==
    /\ AppStep("OnGuiDisconnect")
    /\ g_client' = Client_Disconnect(g_client)
    /\ g_opusEncoder' = FALSE
    /\ UNCHANGED <<running, g_isServerMode>>

\* The client's reader thread finds the control connection closed
AppConnectionLost ==
    /\ g_client.connected
    /\ g_client.tcp_recv_thread
    /\ AppStep("ConnectionLost")
    /\ g_client' = Client_ConnectionLost(g_client)
    /\ UNCHANGED <<running, g_isServerMode, g_opusEncoder>>

NextApp ==
    \/ OnGuiStartServer \/ OnGuiStopServer \/ OnGuiConnect \/ OnGuiDisconnect
    \/ AppConnectionLost

SpecApp == InitApp /\ [][NextApp]_vars

\* C20: mode is exclusive: in every state reached through the start-server,
\* stop-server, connect and disconnect entry points the server is not
\* running while the client is connected or discovering
C20_ModeExclusive ==
    running => (~g_client.connected /\ ~g_client.discovering)

\* The server was started while the client was connected and discovering
C20_Witness ==
    /\ app_op.op = "OnGuiStartServer"
    /\ app_op.was_connected
    /\ app_op.was_discovering
    /\ running

-----------------------------------------------------------------------------
(* The start and stop calls of the server and of the client, in any order *)

\* What a call of the client or of Server_Start/Server_Stop leaves alone
stopFrame ==
    <<coreVars, now, rd_pc, read_fds, leaving, udp_rtp, srvObs, peerVars, cli_op,
      cli_calls, msVars, mixVars, discVars, rxVars, g_isServerMode, g_opusEncoder,
      app_op, app_calls, arrVars, cxVars, thrVars>>

StopStep(op, fired) ==
    /\ stop_calls < MaxStopCalls
    /\ stop_calls' = stop_calls + 1
    /\ stop_prev' = StopPrev(stop_op.op)
    /\ stop_op' = [op |-> op, fired |-> fired]
    /\ UNCHANGED stopFrame

StopClientStep(op, c, fired) ==
    /\ StopStep(op, fired)
    /\ g_client' = c
    /\ UNCHANGED <<running, clients, client_count>>

StopServer_Start ==
    \E sockets_ok \in BOOLEAN :
       LET r == Server_Start_running(running, sockets_ok) IN
       /\ StopStep("Server_Start", IF r.ret THEN <<"onStarted">> ELSE <<>>)
       /\ running' = r.running
       /\ UNCHANGED <<g_client, clients, client_count>>

\* TcpAcceptThreadProc takes a connection while the server runs
StopAccept ==
    /\ running
    /\ TcpAccept
    /\ stop_prev' = StopPrev(stop_op.op)
    /\ stop_op' = [op |-> "TcpAccept", fired |-> <<>>]
    /\ UNCHANGED <<stop_calls, peerVars, cliVars, msVars, mixVars, discVars, rxVars, appVars,
                   arrVars, cxVars, thrVars>>

StopServer_Stop ==
    /\ StopStep("Server_Stop", Server_Stop_fires(running))
    /\ running' = Server_Stop_running(running)
    /\ clients' = Server_Stop_clients(running, clients)
    /\ client_count' = IF running THEN 0 ELSE client_count
    /\ UNCHANGED g_client

StopClient_Start ==
    \/ \E sock_ok \in BOOLEAN :
          StopClientStep("Client_StartDiscovery",
                         Client_StartDiscovery(g_client, sock_ok).c, <<>>)
    \/ \E how \in {"refused", "hello_failed", "ok"} :
          StopClientStep("Client_Connect", Client_Connect(g_client, how).c,
                         Client_Connect_fires(g_client, how))
    \/ \E send_ok \in BOOLEAN :
          StopClientStep("Client_JoinSession",
                         Client_JoinSession(g_client, send_ok).c, <<>>)

StopClient_Disconnect ==
    StopClientStep("Client_Disconnect", Client_Disconnect(g_client),
                   Client_Disconnect_fires(g_client))

StopClient_LeaveSession ==
    StopClientStep("Client_LeaveSession", Client_LeaveSession(g_client), <<>>)

StopClient_StopDiscovery ==
    StopClientStep("Client_StopDiscovery", Client_StopDiscovery(g_client), <<>>)

\* The client's reader thread finds the control connection closed
StopConnectionLost ==
    /\ g_client.connected
    /\ g_client.tcp_recv_thread
    /\ StopClientStep("ConnectionLost", Client_ConnectionLost(g_client),
                      <<"onDisconnected">>)

NextStop ==
    \/ StopServer_Start \/ StopAccept \/ StopServer_Stop \/ StopClient_Start
    \/ StopClient_Disconnect \/ StopClient_LeaveSession \/ StopClient_StopDiscovery
    \/ StopConnectionLost

SpecStop == InitSrv /\ [][NextStop]_vars

StopLeftAll ==
    /\ g_client = stop_prev.g_client
    /\ running = stop_prev.running
    /\ clients = stop_prev.clients
    /\ client_count = stop_prev.client_count
    /\ stop_op.fired = <<>>

\* C21: stop is idempotent: Server_Stop, Client_Disconnect,
\* Client_LeaveSession and Client_StopDiscovery, called when the activity is
\* already stopped, change no state and fire no callback; and each of them
\* leaves its activity stopped, so a stop after a stop leaves what one stop
\* leaves
C21_StopIdempotent ==
    /\ stop_op.op = "Server_Stop" =>
          /\ ~running
          /\ ~stop_prev.running => StopLeftAll
    /\ stop_op.op = "Client_Disconnect" =>
          /\ ~g_client.connected
          /\ ~stop_prev.g_client.connected => StopLeftAll
    /\ stop_op.op = "Client_LeaveSession" =>
          /\ ~g_client.in_session
          /\ ~stop_prev.g_client.in_session => StopLeftAll
    /\ stop_op.op = "Client_StopDiscovery" =>
          /\ ~g_client.discovering
          /\ ~stop_prev.g_client.discovering => StopLeftAll

\* Server_Stop called right after a Server_Stop that closed a session
C21_Witness ==
    /\ stop_op.op = "Server_Stop"
    /\ stop_prev.op = "Server_Stop"
    /\ ~stop_prev.running
    /\ \E i \in Slots : clients[i].tcp_socket # 0

-----------------------------------------------------------------------------
(* An in-order stream with one adjacent swap, received whole and then drained *)

MaxReorderLen == 5           \* packets of the longest swapped stream
ReorderFirst == {0, 1, 100, 32767, 65533, 65535}

\* The stream n, n+1, ... of len packets with the packets at offsets k and
\* k+1 exchanged
SwappedStream(n, len, k) ==
    [i \in 1..len |->
        LET off == IF i - 1 = k THEN k + 1 ELSE IF i - 1 = k + 1 THEN k ELSE i - 1
        IN  (n + off) % SeqModulus]

\* The other scenario variables of a jitter core, at rest
JBScenarioInit ==
    /\ JitterBuffer_Create
    /\ ObsInit
    /\ snd_first = 0 /\ snd_drop = 0 /\ snd_i = 0
    /\ pair_seq = [p \in {"a", "b"} |-> 0]
    /\ pair_ret = [p \in {"a", "b"} |-> <<>>]
    /\ Server_Start
    /\ PeersInit /\ CliInit /\ MsInit /\ MixInit /\ DiscInit /\ RxInit /\ AppInit /\ StopInit /\ CxInit /\ ThrInit

InitReorder ==
    /\ JBScenarioInit
    /\ \E n \in ReorderFirst, len \in 4..MaxReorderLen :
          \E k \in 1..(len - 2) : arrival = SwappedStream(n, len, k)
    /\ arrived = <<>>

\* The next packet arrives and is Put
ArrPut ==
    /\ arrival # <<>>
    /\ JitterBuffer_Put(Head(arrival))
    /\ jb_op' = [op |-> "Put", seq |-> Head(arrival)]
    /\ nops' = nops + 1
    /\ arrival' = Tail(arrival)
    /\ arrived' = Append(arrived, Head(arrival))
    /\ UNCHANGED <<out, arrFrame>>

\* The playback side takes a frame; the decoder works
ArrGet ==
    /\ JitterBuffer_Get(TRUE)
    /\ jb_op' = [op |-> "Get", seq |-> 0]
    /\ nops' = nops + 1
    /\ UNCHANGED <<arrVars, arrFrame>>

\* Playback starts when the whole stream has arrived and stops when the
\* buffer is empty
ReorderDrain ==
    /\ arrival = <<>>
    /\ count > 0
    /\ ArrGet

NextReorder == ArrPut \/ ReorderDrain

SpecReorder == InitReorder /\ [][NextReorder]_vars

\* The stream has arrived and has been drained
ReorderDone == arrival = <<>> /\ arrived # <<>> /\ count = 0

\* The frames of the stream in sending order
InOrderFrames ==
    [i \in 1..Len(arrived) |-> PcmFrame((arrived[1] + i - 1) % SeqModulus)]

\* C22: for a stream that arrives with one adjacent swap ({0,2,1,3}) and is
\* then drained, Get returns the frames in sequence order, no PLC frame is
\* produced, and packets_reorder ends at exactly 1
C22_OneSwapCountsOnce ==
    ReorderDone =>
        /\ out = InOrderFrames
        /\ stats.packets_lost = 0
        /\ stats.packets_reorder = 1

-----------------------------------------------------------------------------
(* An in-order stream played to its end, then one of its packets again *)

LateLens  == {2, 9, 21}      \* lengths of the stream
LateFirst == {0, 65530}

\* n, n+1, ..., n+len-1
InOrderStream(n, len) == [i \in 1..len |-> (n + i - 1) % SeqModulus]

InitLate ==
    /\ JBScenarioInit
    /\ \E n \in LateFirst, len \in LateLens :
          \E r \in 0..(len - 1) :
             arrival = Append(InOrderStream(n, len), (n + r) % SeqModulus)
    /\ arrived = <<>>

\* A packet of the stream arrives while there is room for it
LatePut ==
    /\ Len(arrival) > 1
    /\ count < JITTER_BUFFER_SLOTS
    /\ ArrPut

\* Playback, while something is buffered
LateGet ==
    /\ count > 0
    /\ ArrGet

\* The repeated packet arrives after the whole stream was played
LateRetroPut ==
    /\ Len(arrival) = 1
    /\ count = 0
    /\ ArrPut

NextLate == LatePut \/ LateGet \/ LateRetroPut

SpecLate == InitLate /\ [][NextLate]_vars

\* The repeated packet has been Put
RetroDone == arrival = <<>> /\ arrived # <<>>

\* C23: once Get has advanced past sequence number s, a later Put of a
\* packet with sequence s is counted in packets_late and its payload is not
\* returned by any later Get
C23_PassedPacketIsLate ==
    RetroDone =>
        /\ stats.packets_late = 1
        /\ \A i \in Len(arrived)..Len(out) :
              out[i] # PcmFrame(arrived[Len(arrived)])

-----------------------------------------------------------------------------
(* An in-order stream, each packet Put before playback reaches it *)

MaxOrderLen == 20            \* packets of the in-order stream
OrderFirst == {0, 65520, 65530, 65535}

InitOrder ==
    /\ JBScenarioInit
    /\ \E n \in OrderFirst : arrival = InOrderStream(n, MaxOrderLen)
    /\ arrived = <<>>

\* The next packet arrives; at most JITTER_BUFFER_SLOTS are ever buffered
OrderPut ==
    /\ count < JITTER_BUFFER_SLOTS
    /\ ArrPut

OrderGet ==
    /\ count > 0
    /\ ArrGet

\* Playback asks while nothing is buffered: Get returns 0
OrderGetEmpty ==
    /\ count = 0
    /\ JitterBuffer_Get(TRUE)
    /\ jb_op' = [op |-> "Get", seq |-> 0]
    /\ UNCHANGED <<nops, arrVars, arrFrame>>

NextOrder == OrderPut \/ OrderGet \/ OrderGetEmpty

SpecOrder == InitOrder /\ [][NextOrder]_vars

\* C24: for a stream that arrives in sequence order, each packet Put before
\* Get reaches its position and never more than 16 buffered, every packet's
\* frame is returned exactly once and in order, packets_lost, packets_late
\* and overruns stay 0 and packets_received is the number of packets sent,
\* also across the wrap of the sequence number from 65535 to 0
C24_InOrderStreamPlaysClean ==
    /\ Len(out) <= Len(arrived)
    /\ \A i \in 1..Len(out) : out[i] = PcmFrame(arrived[i])
    /\ Len(out) + count = Len(arrived)
    /\ stats.packets_lost = 0
    /\ stats.packets_late = 0
    /\ stats.overruns = 0
    /\ stats.packets_received = Len(arrived)

\* A stream whose sequence numbers wrapped from 65535 to 0 has been played
\* to its end
C24_Witness ==
    /\ arrival = <<>>
    /\ arrived[1] = 65530
    /\ Len(out) = MaxOrderLen
    /\ count = 0
    /\ out[6] = PcmFrame(65535)
    /\ out[7] = PcmFrame(0)

-----------------------------------------------------------------------------
(* The server's reader on several connections that carry well-formed streams *)

cxFrame == <<baseVars, cliVars, msVars, mixVars, discVars, rxVars, appVars, stopVars, arrVars, thrVars>>

\* A peer writes its next message
CxSend ==
    \E c \in Conns, p \in CxPayloads :
       /\ cx_open[c] = "open"
       /\ Len(cx_msgs[c]) < MaxCxMsgs
       /\ LET m == CxMessage(Len(cx_msgs[c]) + 1, p) IN
          /\ cx_msgs' = [cx_msgs EXCEPT ![c] = Append(@, m)]
          /\ cx_wire' = [cx_wire EXCEPT ![c] = @ \o m]
       /\ UNCHANGED <<cx_buf, cx_open, cx_log, cxFrame>>

\* A peer closes its connection
CxClose ==
    \E c \in Conns :
       /\ cx_open[c] = "open"
       /\ cx_open' = [cx_open EXCEPT ![c] = "closed"]
       /\ UNCHANGED <<cx_msgs, cx_wire, cx_buf, cx_log, cxFrame>>

\* The reader serves a readable connection: recv of some of the waiting
\* units, then the reassembly loop; at the end of the stream recv returns 0
\* and the session is removed
CxRecv ==
    \E c \in Conns :
       /\ cx_open[c] # "removed"
       /\ IF cx_wire[c] = <<>> THEN
             /\ cx_open[c] = "closed"
             /\ cx_open' = [cx_open EXCEPT ![c] = "removed"]
             /\ UNCHANGED <<cx_wire, cx_buf, cx_log>>
          ELSE
             \E n \in 1..Len(cx_wire[c]) :
                LET r == Reassemble(cx_buf[c] \o SubSeq(cx_wire[c], 1, n), <<>>) IN
                /\ n <= RxBufCap - Len(cx_buf[c])
                /\ cx_wire' = [cx_wire EXCEPT ![c] = SubSeq(@, n + 1, Len(@))]
                /\ cx_buf' = [cx_buf EXCEPT ![c] = r.buf]
                /\ cx_log' = cx_log \o [i \in 1..Len(r.handed) |-> <<c, r.handed[i]>>]
                /\ UNCHANGED cx_open
       /\ UNCHANGED <<cx_msgs, cxFrame>>

NextConns == CxSend \/ CxClose \/ CxRecv

SpecConns == InitSrv /\ [][NextConns]_vars

\* The messages of connection c handed to HandleTcpPacket, in order
RECURSIVE DispatchedOf(_, _)
DispatchedOf(c, log) ==
    IF log = <<>> THEN <<>>
    ELSE IF Head(log)[1] = c THEN <<Head(log)[2]>> \o DispatchedOf(c, Tail(log))
    ELSE DispatchedOf(c, Tail(log))

\* C25: for well-formed streams the server hands each connection's messages
\* to HandleTcpPacket in the order their bytes arrived, each complete
\* message once, whatever the split into recv calls and the interleaving
\* with other connections: what was handed on is a prefix of what the peer
\* wrote, and a message is handed on as soon as its last unit is received
C25_DispatchInArrivalOrder ==
    \A c \in Conns :
       LET d == DispatchedOf(c, cx_log) IN
       /\ Len(d) <= Len(cx_msgs[c])
       /\ \A i \in 1..Len(d) : d[i] = cx_msgs[c][i]
       /\ Len(d) < Len(cx_msgs[c]) =>
             /\ cx_buf[c] = SubSeq(cx_msgs[c][Len(d) + 1], 1, Len(cx_buf[c]))
             /\ Len(cx_buf[c]) < Len(cx_msgs[c][Len(d) + 1])
       /\ Len(d) = Len(cx_msgs[c]) => cx_buf[c] = <<>>

\* Both connections had two messages dispatched, interleaved, one of them
\* with a payload
C25_Witness ==
    /\ Len(cx_log) = 2 * Cardinality(Conns)
    /\ cx_log[1][1] # cx_log[2][1]
    /\ cx_log[3][1] = cx_log[1][1]
    /\ \E c \in Conns : Len(cx_msgs[c][2]) > HdrUnits

-----------------------------------------------------------------------------
(* Packets that arrive more than once, between Gets and Resets *)

MaxDupLen == 3               \* packets of the longest arriving stream
MaxDupOps == 6               \* Put/Get/Reset calls on the core
DupSeqs == {65527, 65535, 0, 1}

InitDup ==
    /\ JBScenarioInit
    /\ \E len \in 2..MaxDupLen : arrival \in [1..len -> DupSeqs]
    /\ arrived = <<>>

\* The next packet arrives
DupPut ==
    /\ nops < MaxDupOps
    /\ ArrPut

\* Playback takes a frame, or finds nothing
DupGet ==
    /\ nops < MaxDupOps
    /\ ArrGet

\* Reset; arrived keeps the packets Put since the core was last empty
DupReset ==
    /\ nops < MaxDupOps
    /\ JitterBuffer_Reset
    /\ jb_op' = [op |-> "Reset", seq |-> 0]
    /\ jb_ret' = 0
    /\ nops' = nops + 1
    /\ out' = <<>>
    /\ arrived' = <<>>
    /\ UNCHANGED <<arrival, arrFrame>>

NextDup == DupPut \/ DupGet \/ DupReset

SpecDup == InitDup /\ [][NextDup]_vars

\* The slots in use that hold sequence s
SlotsHolding(s) == {i \in NonEmptySlots : slots[i].sequence = s}

\* This step is a Put that changes nothing but next_seq's initialisation and
\* returns 0, and one slot holds its packet
PutIgnored ==
    /\ UNCHANGED <<slots, count, stats, head, tail, out>>
    /\ jb_ret' = 0
    /\ Cardinality(SlotsHolding(jb_op'.seq)) = 1

\* This step is a Put that repeats the Put before it, which returned 0
PutRepeats == PutStep /\ jb_op.op = "Put" /\ jb_op.seq = jb_op'.seq /\ jb_ret = 0

\* C30, as stated: a Put whose sequence equals that of a non-EMPTY slot
\* leaves slots, count, packets_received and packets_reorder unchanged and
\* returns 0
C30_DuplicatePutIgnored_Any ==
    [][PutStep /\ SlotsHolding(jb_op'.seq) # {} => PutIgnored]_vars

\* C30: a Put whose sequence equals that of a non-EMPTY slot and is not more
\* than JITTER_BUFFER_SLOTS / 2 behind next_seq leaves slots, count and all
\* counters unchanged and returns 0; so does a Put that repeats the accepted
\* Put before it, and one slot holds the packet afterwards, so that it is
\* returned by one Get
C30_DuplicatePutIgnored ==
    [][/\ (/\ PutStep
           /\ SlotsHolding(jb_op'.seq) # {}
           /\ PutDistance >= -(JITTER_BUFFER_SLOTS \div 2)) => PutIgnored
       /\ PutRepeats => PutIgnored
      ]_vars

\* A packet was Put twice in a row; the second Put returned 0 and was not
\* counted as received, late or overrun
C30_Witness ==
    /\ jb_op.op = "Put"
    /\ jb_ret = 0
    /\ Len(arrived) >= 2
    /\ arrived[Len(arrived)] = arrived[Len(arrived) - 1]
    /\ stats.packets_late = 0
    /\ stats.overruns = 0
    /\ stats.packets_received = Len(arrived) - 1
    /\ count = stats.packets_received

-----------------------------------------------------------------------------
(* Get on a head slot whose payload does not decode *)

\* This step is a Get call
GetStep == jb_op'.op = "Get" /\ nops' = nops + 1

\* This step is a Get that found the head slot FILLED and could not decode it
\* (decode_slot below 0: no decoder set, or the decoder returned no samples)
GetDecodeFailed ==
    /\ GetStep
    /\ ~GetHasNothing
    /\ slots[head].state = JB_SLOT_FILLED
    /\ out' = Append(out, PlcFrame)

\* C31: when Get finds the head slot FILLED and decoding fails, Get returns
\* one concealment frame, empties the slot, advances head and next_seq by
\* one, decrements count, and counts the frame in packets_lost, with
\* loss_rate updated to lost / (lost + received)
C31_DecodeFailureIsLoss ==
    [][GetDecodeFailed =>
         /\ jb_ret' = AUDIO_FRAME_SAMPLES
         /\ slots' = [slots EXCEPT ![head].state = JB_SLOT_EMPTY]
         /\ head' = (head + 1) % JITTER_BUFFER_SLOTS
         /\ next_seq' = SeqInc(next_seq)
         /\ count' = count - 1
         /\ stats'.packets_lost = stats.packets_lost + 1
         /\ SameFraction(stats'.loss_rate, LossRate(stats'))
      ]_vars

-----------------------------------------------------------------------------
(* Malformed frames in the reassembly loops *)

\* buf starts with a valid header that announces a frame larger than recv_buf
OversizeHeader(buf) ==
    /\ Len(buf) >= HdrUnits
    /\ PacketHeader_Validate(buf)
    /\ AddInt32(HdrUnits, buf[2]) > RxBufCap

\* C32: when the server's or the client's reassembly sees a header with bad
\* magic, or a payload_len that makes the frame larger than recv_buf, it
\* discards recv_buf and dispatches nothing from it: the reader never waits
\* for more input with such a header at the start of recv_buf, no frame
\* shorter than the header or longer than recv_buf is dispatched, and the
\* reader gives the connection up only when the peer has closed it
C32_MalformedFrameDiscarded ==
    rx_side \in {"server", "client"} =>
        /\ rx_pc = "recv" =>
              /\ ~OversizeHeader(recv_buf)
              /\ Len(recv_buf) >= HdrUnits => PacketHeader_Validate(recv_buf)
        /\ rx_handed # <<>> =>
              /\ rx_handed[1].len >= HdrUnits
              /\ rx_handed[1].len <= RxBufCap
        /\ rx_pc \in {"lost", "crashed"} => rx_closed /\ rx_wire = <<>>

-----------------------------------------------------------------------------
(* Admission of a new TCP connection *)

\* This step is the accept thread taking one connection
AcceptStep == srv_steps'.accept = srv_steps.accept + 1

\* The connection of this step got slot i
AdmittedAt(i) ==
    /\ ~clients[i].active
    /\ clients'[i].active
    /\ clients'[i].tcp_socket = srv_op'.sock
    /\ \A j \in Slots : j # i => clients'[j] = clients[j]
    /\ client_count' = client_count + 1

\* C33: a new TCP connection is admitted (given a session slot, active set,
\* client_count incremented) if and only if at least one session slot is
\* inactive; when all are active the connection is closed and the session
\* table and client_count are unchanged; a slot freed by the removal of a
\* session is given to the next connection
C33_AdmittedIffFreeSlot ==
    [][AcceptStep =>
         IF \E i \in Slots : ~clients[i].active
         THEN /\ srv_op'.op = "Accept"
              /\ \E i \in Slots : AdmittedAt(i)
         ELSE /\ srv_op'.op = "AcceptFull"
              /\ UNCHANGED <<clients, client_count>>
      ]_vars

\* More connections were admitted than there are slots: the last one got
\* the slot of a session that had been removed
C33_Witness ==
    /\ srv_op.op = "Accept"
    /\ srv_op.sock > MaxClients
    /\ clients[srv_op.slot].active
    /\ clients[srv_op.slot].tcp_socket = srv_op.sock

-----------------------------------------------------------------------------
(* Server_Stop against the server's threads and a peer *)

\* What the steps of this scenario leave alone outside the server
haltFrame ==
    <<coreVars, peerVars, cliVars, msVars, mixVars, discVars, rxVars,
      g_isServerMode, g_opusEncoder, app_op, app_calls, stopVars, arrVars, cxVars,
      gcVars>>

\* Server_Start has returned: the server runs
InitHalt ==
    /\ JitterBuffer_Create
    /\ ObsInit
    /\ snd_first = 0 /\ snd_drop = 0 /\ snd_i = 0
    /\ pair_seq = [p \in {"a", "b"} |-> 0]
    /\ pair_ret = [p \in {"a", "b"} |-> <<>>]
    /\ Server_Start
    /\ PeersInit /\ CliInit /\ MsInit /\ MixInit /\ DiscInit /\ RxInit
    /\ running = TRUE
    /\ g_isServerMode = TRUE
    /\ g_opusEncoder = FALSE
    /\ app_op = AppOp("WinMain", Client_Init, FALSE)
    /\ app_calls = 0
    /\ StopInit /\ CxInit /\ ArrInit
    /\ HaltInit /\ GcInit

\* Server_Stop, lines 190-198: the flag is cleared and the three server
\* sockets are closed
Server_Stop_Begin ==
    /\ stop_pc = "none"
    /\ running
    /\ running' = FALSE
    /\ stop_pc' = "lock"
    /\ UNCHANGED <<srvVars, srvObs, thr, tcp_room, peer_reads, haltFrame>>

\* Server_Stop, lines 200-209: under clients_mutex every active session's
\* socket is closed and the session cleared
Server_Stop_Clear ==
    /\ stop_pc = "lock"
    /\ MutexFree
    /\ clients' = Server_Stop_clients(TRUE, clients)
    /\ client_count' = 0
    /\ stop_pc' = "join"
    /\ UNCHANGED <<now, rd_pc, read_fds, leaving, udp_rtp, srvObs, running,
                   thr, tcp_room, peer_reads, haltFrame>>

\* Server_Stop, lines 211-215: the four ThreadJoin calls return when the
\* threads have left their loops
Server_Stop_Join ==
    /\ stop_pc = "join"
    /\ rd_pc = "exit"
    /\ \A t \in DOMAIN thr : thr[t] = "exit"
    /\ stop_pc' = "done"
    /\ UNCHANGED <<srvVars, srvObs, running, thr, tcp_room, peer_reads, haltFrame>>

\* TcpAcceptThreadProc, lines 363-373: accept returns a connection that
\* arrived while the listening socket was open
HaltAcceptReturn ==
    /\ thr.accept = "accept"
    /\ running
    /\ srv_steps.accept < MaxAccepts
    /\ thr' = [thr EXCEPT !.accept = "got"]
    /\ UNCHANGED <<srvVars, srvObs, running, stop_pc, tcp_room, peer_reads, haltFrame>>

\* TcpAcceptThreadProc, lines 375-405: the connection gets a slot under
\* clients_mutex, or is closed when the table is full
HaltAcceptAdmit ==
    /\ thr.accept = "got"
    /\ TcpAccept
    /\ thr' = [thr EXCEPT !.accept = "accept"]
    /\ UNCHANGED <<running, stop_pc, tcp_room, peer_reads, peerVars, cliVars, msVars,
                   mixVars, discVars, rxVars, g_isServerMode, g_opusEncoder, app_op,
                   app_calls, stopVars, arrVars, cxVars, gcVars>>

\* A thread blocked in accept or a receive call finds its socket closed (or
\* its timeout over) and the flag cleared, and leaves its loop
HaltThreadExit(t) ==
    /\ thr[t] \in {"accept", "recv"}
    /\ ~running
    /\ thr' = [thr EXCEPT ![t] = "exit"]
    /\ UNCHANGED <<srvVars, srvObs, running, stop_pc, tcp_room, peer_reads, haltFrame>>

HaltAcceptExit == HaltThreadExit("accept")

HaltDiscExit == HaltThreadExit("disc")

HaltUdpExit == HaltThreadExit("udp")

\* TcpRecvThreadProc, lines 418-445: the loop test, select reports a
\* readable session, clients_mutex is taken
HaltSelect ==
    /\ rd_pc = "select"
    /\ running
    /\ \E i \in Slots : clients[i].active
    /\ rd_pc' = "recv"
    /\ UNCHANGED <<clients, client_count, now, read_fds, leaving, udp_rtp, srvObs,
                   running, stop_pc, thr, tcp_room, peer_reads, haltFrame>>

\* TcpRecvThreadProc, lines 446-490: a message is handled and its reply
\* written with Network_TcpSend, all under clients_mutex. send blocks while
\* the socket buffers towards the peer are full.
HaltHandle ==
    /\ rd_pc = "recv"
    /\ tcp_room > 0
    /\ tcp_room' = tcp_room - 1
    /\ rd_pc' = "select"
    /\ UNCHANGED <<clients, client_count, now, read_fds, leaving, udp_rtp, srvObs,
                   running, stop_pc, thr, peer_reads, haltFrame>>

\* TcpRecvThreadProc, line 418: the loop test fails
HaltReaderExit ==
    /\ rd_pc = "select"
    /\ ~running
    /\ rd_pc' = "exit"
    /\ UNCHANGED <<clients, client_count, now, read_fds, leaving, udp_rtp, srvObs,
                   running, stop_pc, thr, tcp_room, peer_reads, haltFrame>>

\* The peer takes a message from its connection
PeerRead ==
    /\ peer_reads
    /\ tcp_room < MaxTcpRoom
    /\ tcp_room' = tcp_room + 1
    /\ UNCHANGED <<srvVars, srvObs, running, stop_pc, thr, peer_reads, haltFrame>>

\* The peer stops reading its connection; it keeps it open
PeerStopsReading ==
    /\ peer_reads
    /\ peer_reads' = FALSE
    /\ UNCHANGED <<srvVars, srvObs, running, stop_pc, thr, tcp_room, haltFrame>>

NextHalt ==
    \/ Server_Stop_Begin
    \/ Server_Stop_Clear
    \/ Server_Stop_Join
    \/ HaltAcceptReturn
    \/ HaltAcceptAdmit
    \/ HaltAcceptExit
    \/ HaltDiscExit
    \/ HaltUdpExit
    \/ HaltSelect
    \/ HaltHandle
    \/ HaltReaderExit
    \/ PeerRead
    \/ PeerStopsReading

SpecHalt == InitHalt /\ [][NextHalt]_vars

\* Server_Stop and the four threads are scheduled: each takes its next step
\* when it can. Nothing is assumed of the peer or of new connections.
SpecHaltFair ==
    /\ SpecHalt
    /\ WF_vars(Server_Stop_Clear)
    /\ WF_vars(Server_Stop_Join)
    /\ WF_vars(HaltAcceptAdmit)
    /\ WF_vars(HaltAcceptExit)
    /\ WF_vars(HaltDiscExit)
    /\ WF_vars(HaltUdpExit)
    /\ WF_vars(HaltSelect)
    /\ WF_vars(HaltHandle)
    /\ WF_vars(HaltReaderExit)

\* C34: Server_Stop always terminates: after it has cleared running and
\* closed the sockets, each of the four threads observes the flag and exits
\* and every ThreadJoin returns, whatever the connected peers do
C34_ServerStopTerminates == (stop_pc = "lock") ~> (stop_pc = "done")

\* C36: after Server_Stop has returned no session slot is active and
\* client_count is 0, for every interleaving of Server_Stop with the accept
\* thread
C36_NoSessionAfterStop ==
    stop_pc = "done" =>
        /\ \A i \in Slots : ~clients[i].active
        /\ client_count = 0

-----------------------------------------------------------------------------
(* Client ids claimed by HELLO *)

\* C35: after HELLO every session has ssrc = client_id, and no two active
\* sessions hold the same client_id: when a HELLO claims an id that another
\* active session holds, the later claim replaces the earlier one
C35_ClientIdsUnique ==
    /\ \A i \in Slots :
          (clients[i].active /\ clients[i].hello_done) =>
              clients[i].ssrc = clients[i].client_id
    /\ \A i \in Slots : \A j \in Slots :
          (/\ i # j
           /\ clients[i].active /\ clients[i].hello_done
           /\ clients[j].active /\ clients[j].hello_done) =>
              clients[i].client_id # clients[j].client_id

-----------------------------------------------------------------------------
(* A stream that goes on after a gap in its sequence numbers *)

MaxGapPrefix == 3            \* packets sent before the gap
GapFirst == {0, 65530}
GapSizes == {0, 5, 13, 20, 40000}   \* sequence numbers skipped by the sender

\* MaxGapPrefix consecutive packets from n, then JITTER_BUFFER_SLOTS
\* consecutive packets after g skipped sequence numbers
GapStream(n, g) ==
    InOrderStream(n, MaxGapPrefix)
        \o InOrderStream((n + MaxGapPrefix + g) % SeqModulus, JITTER_BUFFER_SLOTS)

InitGap ==
    /\ JBScenarioInit
    /\ \E n \in GapFirst, g \in GapSizes : arrival = GapStream(n, g)
    /\ arrived = <<>>

\* The next packet of the stream arrives; playback has asked for a frame
\* since the packet before it
GapPut ==
    /\ jb_op.op # "Put"
    /\ ArrPut

\* Playback takes a frame
GapGet ==
    /\ count > 0
    /\ ArrGet

\* Playback asks while nothing is buffered: Get returns 0
GapGetEmpty == OrderGetEmpty

NextGap == GapPut \/ GapGet \/ GapGetEmpty

SpecGap == InitGap /\ [][NextGap]_vars

\* C37: a stream does not get stuck rejecting input: when the sender goes on
\* with consecutive sequence numbers after a gap and Get keeps being called,
\* one of its next 16 packets is accepted. The packets before the gap
\* are all accepted, so packets_received then exceeds their number.
C37_AcceptsAgainAfterGap ==
    /\ Len(arrived) <= MaxGapPrefix => stats.packets_received = Len(arrived)
    /\ arrival = <<>> => stats.packets_received > MaxGapPrefix

-----------------------------------------------------------------------------
(* A stream that stops: a few packets, then only Get calls *)

MaxIdleLen  == 3             \* packets that arrive before the stream stops
MaxIdleGets == 18            \* Get calls after the last packet
IdleSeqs == {0, 1, 15, 65535}

InitIdle ==
    /\ JBScenarioInit
    /\ \E len \in 1..MaxIdleLen : arrival \in [1..len -> IdleSeqs]
    /\ arrived = <<>>

\* A packet arrives
IdlePut == ArrPut

\* Playback asks for a frame after the last packet has arrived
IdleGet ==
    /\ arrival = <<>>
    /\ nops < Len(arrived) + MaxIdleGets
    /\ ArrGet

NextIdle == IdlePut \/ IdleGet

SpecIdle == InitIdle /\ [][NextIdle]_vars

\* C38: an idle stream falls silent: without an accepted Put in between, at
\* most 16 consecutive Get calls return a frame (decoded or concealment);
\* after that Get returns 0, produces no PLC frame and counts no loss
C38_IdleStreamFallsSilent ==
    arrival = <<>> =>
        /\ Len(out) <= JITTER_BUFFER_SLOTS
        /\ stats.packets_lost <= JITTER_BUFFER_SLOTS
        /\ nops - Len(arrived) > JITTER_BUFFER_SLOTS => jb_ret = 0

-----------------------------------------------------------------------------
(* The stream table under all its calls *)

\* MultiStreamJB_Reset: JitterBuffer_Reset on the core of every active entry
MultiStreamJB_Reset(tbl) ==
    [i \in StreamIdx |->
        IF tbl[i].active /\ tbl[i].jitter_buffer # NoCore
        THEN [tbl[i] EXCEPT !.jitter_buffer.puts = 0]
        ELSE tbl[i]]

MsReset ==
    /\ ms_calls < MaxMsCalls
    /\ ms_calls' = ms_calls + 1
    /\ streams' = MultiStreamJB_Reset(streams)
    /\ ms_op' = MsOp("Reset", 0, ms_now, 0, -1, <<>>)
    /\ ms_prev' = streams
    /\ UNCHANGED <<ms_now, notMs>>

\* MultiStreamJB_GetMixed: JitterBuffer_Get on the core of every active
\* entry; the entries themselves are only read
MsGetMixed ==
    /\ ms_calls < MaxMsCalls
    /\ ms_calls' = ms_calls + 1
    /\ ms_op' = MsOp("GetMixed", 0, ms_now, 0, -1, <<>>)
    /\ ms_prev' = streams
    /\ UNCHANGED <<streams, ms_now, notMs>>

NextTable == MsTick \/ MsPut \/ MsCleanup \/ MsReset \/ MsGetMixed

SpecTable == InitSrv /\ [][NextTable]_vars

\* C39: at most one active stream-table entry exists for any SSRC, after any
\* sequence of MultiStreamJB_Put, GetMixed, CleanupInactive and Reset
C39_OneEntryPerSsrc ==
    \A i \in StreamIdx : \A j \in StreamIdx :
        (i # j /\ streams[i].active /\ streams[j].active) =>
            streams[i].ssrc # streams[j].ssrc

\* A stream was created again in the entry it had before the sweep removed
\* it, and every entry of the table is active
C39_Witness ==
    /\ ms_op.op = "Put"
    /\ ms_op.slot >= 0
    /\ ~ms_prev[ms_op.slot].active
    /\ ms_prev[ms_op.slot].ssrc = ms_op.ssrc
    /\ \A i \in StreamIdx : streams[i].active

-----------------------------------------------------------------------------
(* The ingest thread and the playback pump on one stream table *)

\* What the steps of this scenario leave alone
gcFrame == <<baseVars, cliVars, mixVars, discVars, rxVars, appVars, stopVars, arrVars,
             cxVars, haltVars>>

\* A lock that is taken without waiting for its owner
MutexLock_NoWait(m) == TRUE

\* MutexLock(&msjb->mutex) returns: the mutex has no owner
MutexLock(m) == m = "none"

Waiting(arg) == [pc |-> "lock", core |-> 0, arg |-> arg]
AtRest == [pc |-> "idle", core |-> 0, arg |-> 0]

\* The active entry whose core is c
EntryOfCore(tbl, c) == {i \in StreamIdx : tbl[i].active /\ tbl[i].jitter_buffer.id = c}

\* UdpAudioRecvThreadProc: a datagram of another source; MultiStreamJB_Put is called
IngestCall ==
    /\ ms_thr.ingest.pc = "idle"
    /\ ms_calls < MaxMsCalls
    /\ ms_calls' = ms_calls + 1
    /\ \E ssrc \in MsSsrcs : ms_thr' = [ms_thr EXCEPT !.ingest = Waiting(ssrc)]
    /\ UNCHANGED <<streams, ms_now, ms_prev, ms_op, ms_mutex, gcFrame>>

\* MultiStreamJB_Put, lines 566-572: the mutex is taken, find_or_create_stream
\* finds, creates or replaces the entry
IngestFind ==
    /\ ms_thr.ingest.pc = "lock"
    /\ MutexLock(ms_mutex)
    /\ LET f == find_or_create_stream(streams, ms_thr.ingest.arg, ms_now, ms_calls) IN
       /\ streams' = f.tbl
       /\ ms_op' = MsOp("Put", ms_thr.ingest.arg, ms_now, 0, f.slot, f.destroyed)
       /\ IF f.slot = -1
          THEN /\ ms_thr' = [ms_thr EXCEPT !.ingest = AtRest]
               /\ ms_mutex' = "none"
          ELSE /\ ms_thr' = [ms_thr EXCEPT !.ingest =
                                [pc |-> "put", core |-> f.tbl[f.slot].jitter_buffer.id,
                                 arg |-> f.slot]]
               /\ ms_mutex' = "ingest"
    /\ ms_prev' = streams
    /\ UNCHANGED <<ms_now, ms_calls, gcFrame>>

\* MultiStreamJB_Put, lines 574-577: JitterBuffer_Put on the entry's core
\* returns and the mutex is released
IngestPut ==
    /\ ms_thr.ingest.pc = "put"
    /\ streams' = [i \in StreamIdx |->
                      IF i \in EntryOfCore(streams, ms_thr.ingest.core)
                      THEN [streams[i] EXCEPT !.jitter_buffer.puts = @ + 1]
                      ELSE streams[i]]
    /\ ms_thr' = [ms_thr EXCEPT !.ingest = AtRest]
    /\ ms_mutex' = IF ms_mutex = "ingest" THEN "none" ELSE ms_mutex
    /\ UNCHANGED <<ms_now, ms_prev, ms_op, ms_calls, gcFrame>>

\* PlaybackThreadProc: MultiStreamJB_GetMixed (arg 0) or, when the cleanup
\* timer has run out, MultiStreamJB_CleanupInactive (arg 1) is called
PlayCall ==
    /\ ms_thr.play.pc = "idle"
    /\ ms_calls < MaxMsCalls
    /\ ms_calls' = ms_calls + 1
    /\ \E what \in {0, 1} : ms_thr' = [ms_thr EXCEPT !.play = Waiting(what)]
    /\ UNCHANGED <<streams, ms_now, ms_prev, ms_op, ms_mutex, gcFrame>>

\* MultiStreamJB_GetMixed, line 585: the mutex is taken; the loop starts at entry 0
PlayLock ==
    /\ ms_thr.play.pc = "lock"
    /\ ms_thr.play.arg = 0
    /\ MutexLock(ms_mutex)
    /\ ms_mutex' = "play"
    /\ ms_thr' = [ms_thr EXCEPT !.play = [pc |-> "mix", core |-> 0, arg |-> 0]]
    /\ UNCHANGED <<streams, ms_now, ms_prev, ms_op, ms_calls, gcFrame>>

\* MultiStreamJB_GetMixed, lines 594-598 and 613: the loop reaches entry arg;
\* JitterBuffer_Get is entered on an active entry's core; after the last
\* entry the mutex is released
PlayNext ==
    /\ ms_thr.play.pc = "mix"
    /\ LET i == ms_thr.play.arg IN
       IF i = MaxStreams THEN
          /\ ms_thr' = [ms_thr EXCEPT !.play = AtRest]
          /\ ms_mutex' = IF ms_mutex = "play" THEN "none" ELSE ms_mutex
       ELSE IF streams[i].active /\ streams[i].jitter_buffer # NoCore THEN
          /\ ms_thr' = [ms_thr EXCEPT !.play =
                           [pc |-> "get", core |-> streams[i].jitter_buffer.id, arg |-> i]]
          /\ UNCHANGED ms_mutex
       ELSE
          /\ ms_thr' = [ms_thr EXCEPT !.play.arg = i + 1]
          /\ UNCHANGED ms_mutex
    /\ UNCHANGED <<streams, ms_now, ms_prev, ms_op, ms_calls, gcFrame>>

\* MultiStreamJB_GetMixed, lines 598-610: JitterBuffer_Get returns, the frame
\* is added to the mix
PlayGet ==
    /\ ms_thr.play.pc = "get"
    /\ ms_thr' = [ms_thr EXCEPT !.play = [pc |-> "mix", core |-> 0, arg |-> @.arg + 1]]
    /\ UNCHANGED <<streams, ms_now, ms_prev, ms_op, ms_calls, ms_mutex, gcFrame>>

\* MultiStreamJB_CleanupInactive: under the mutex, the idle entries' cores
\* and decoders are destroyed
PlayCleanup ==
    /\ ms_thr.play.pc = "lock"
    /\ ms_thr.play.arg = 1
    /\ MutexLock(ms_mutex)
    /\ streams' = MultiStreamJB_CleanupInactive(streams, ms_now, CLEANUP_TIMEOUT)
    /\ ms_op' = MsOp("Cleanup", 0, ms_now, 0, -1, <<>>)
    /\ ms_prev' = streams
    /\ ms_thr' = [ms_thr EXCEPT !.play = AtRest]
    /\ UNCHANGED <<ms_now, ms_calls, ms_mutex, gcFrame>>

\* GetTickCount64Ms advances
GcTick ==
    /\ ms_now < MaxMsTicks * MsTickMs
    /\ ms_now' = ms_now + MsTickMs
    /\ UNCHANGED <<streams, ms_prev, ms_op, ms_calls, gcVars, gcFrame>>

NextCores ==
    \/ IngestCall
    \/ IngestFind
    \/ IngestPut
    \/ PlayCall
    \/ PlayLock
    \/ PlayNext
    \/ PlayGet
    \/ PlayCleanup
    \/ GcTick

SpecCores == InitSrv /\ [][NextCores]_vars

\* C40: a jitter core and its decoder are never destroyed, by the eviction in
\* Put or by CleanupInactive, while a Put or Get on that core is in progress
\* in the other thread: the core a thread is working on is the core of an
\* active entry
C40_CoreAliveWhileInUse ==
    \A t \in {"ingest", "play"} :
        ms_thr[t].pc \in {"put", "get"} => EntryOfCore(streams, ms_thr[t].core) # {}

\* The ingest thread has just replaced the least recently active stream and
\* is in JitterBuffer_Put on the new core, while the playback pump waits for
\* the mutex in MultiStreamJB_GetMixed
C40_Witness ==
    /\ ms_thr.ingest.pc = "put"
    /\ ms_op.op = "Put"
    /\ ms_op.destroyed # <<>>
    /\ ms_thr.play.pc = "lock"
    /\ ms_thr.play.arg = 0

====
